---------------------------- MODULE Spec2Model ----------------------------
(***************************************************************************)
(* A model of PymupdfParser (src/app/parser/pdf_parser.py).                *)
(*                                                                         *)
(* Five specifications share the module:                                   *)
(*   Spec        - parse: open, get_page_segments, the process pool with   *)
(*                 one process_page_chunk task per segment, executor.map,  *)
(*                 the sort and the conversion to Elements;                *)
(*   SegSpec     - get_page_segments called on its own, on larger          *)
(*                 documents;                                              *)
(*   MergeSpec   - merge_tables / should_merge_tables, called on a list of *)
(*                 table rectangles, on its own output and on the list in  *)
(*                 another order;                                          *)
(*   ContentSpec - get_ordered_content, the column loop and the table loop *)
(*                 run one split at a time, the text oracle answering      *)
(*                 each get_text call;                                     *)
(*   ColumnSpec  - column_boxes on one page, a loop iteration at a time,   *)
(*                 then get_ordered_content and parse on that page.        *)
(* The variables of the parts a specification does not run stay at their   *)
(* idle values.                                                            *)
(***************************************************************************)
EXTENDS Integers, Sequences, FiniteSets, TLC

VARIABLES
    \* ---- PymupdfParser.__init__
    max_processors,          \* self.max_processors
    tolerance,               \* self.tolerance
    \* ---- parse
    file,                    \* the bytes: [ok |-> can fitz open it, pages |-> one kind per page]
    pc,                      \* where parse is
    num_pages,               \* len(doc)
    page_segments,           \* get_page_segments(num_pages)
    num_utilized_processors, \* len(page_segments), the pool's max_workers
    futures,                 \* one future per submitted chunk: [state, result]
    completion_order,        \* the workers in the order they completed
    next_result,             \* the future executor.map yields next (1-based)
    chunk_results,           \* list(executor.map(...)) so far
    results,                 \* the flattened (page_num, content) pairs
    elements,                \* the Elements parse returns
    error,                   \* the exception parse re-raises, or NoError
    \* ---- merge_tables
    table_bboxes,            \* the argument (the raw table rectangles)
    mpc,                     \* which call of merge_tables has returned
    merged,                  \* merge_tables(table_bboxes)
    remerged,                \* merge_tables(merged)
    permuted,                \* table_bboxes in another order
    merged_permuted,         \* merge_tables(permuted)
    \* ---- get_ordered_content
    text_bboxes,             \* column_boxes(page)
    merged_tables,           \* merge_tables(table_bboxes)
    gpc,                     \* where get_ordered_content is
    column_index,            \* the column loop's position (1-based)
    intersecting_tables,     \* of the current column, sorted by y0
    table_index,             \* the inner loop's position (1-based)
    current_bbox,            \* the working "below" slice, or None
    ordered_content,
    processed_tables,
    column_start,            \* len(ordered_content) when the latest column began
    oracle_log,              \* the page's get_text answers so far: {[clip, text]}
    \* ---- column_boxes
    page,                    \* the oracle's page: [rect, drawings, images, blocks, raises]
    header_margin,           \* self.header_margin
    footer_margin,           \* self.footer_margin
    no_image_text,           \* self.no_image_text
    cpc,                     \* where column_boxes is
    clip,                    \* the usable rectangle, or None before it is computed
    path_bboxes,
    img_bboxes,
    vert_bboxes,
    col_bboxes,              \* bboxes: the candidates (None once the merge took one)
    nblocks,                 \* the merged rectangles
    loop_index,              \* i of extend_right's loop, then of the merge loop (1-based)
    column_error,            \* the except clause of column_boxes has run
    column_result            \* what column_boxes returned

initVars == <<max_processors, tolerance>>
parseVars == <<file, pc, num_pages, page_segments, num_utilized_processors,
               futures, completion_order, next_result, chunk_results,
               results, elements, error>>
mergeVars == <<table_bboxes, mpc, merged, remerged, permuted, merged_permuted>>
contentVars == <<text_bboxes, merged_tables, gpc, column_index,
                 intersecting_tables, table_index, current_bbox,
                 ordered_content, processed_tables, column_start, oracle_log>>
columnVars == <<page, header_margin, footer_margin, no_image_text, cpc, clip,
                path_bboxes, img_bboxes, vert_bboxes, col_bboxes, nblocks,
                loop_index, column_error, column_result>>
vars == <<initVars, parseVars, mergeVars, contentVars, columnVars>>

\* Python's None where a rectangle may stand: a record no IRect equals.
None == [none |-> TRUE]
NoError == "NoError"

Min(a, b) == IF a <= b THEN a ELSE b
Max(a, b) == IF a >= b THEN a ELSE b
Abs(a) == IF a >= 0 THEN a ELSE 0 - a

\* fitz.IRect(x0, y0, x1, y1)
IRect(x0, y0, x1, y1) == [x0 |-> x0, y0 |-> y0, x1 |-> x1, y1 |-> y1]

\* IRect.is_empty: no positive width or no positive height
IsEmpty(r) == r.x0 >= r.x1 \/ r.y0 >= r.y1

\* a & b on two IRects: the common area (empty when they are disjoint)
Intersect(a, b) ==
    IRect(Max(a.x0, b.x0), Max(a.y0, b.y0), Min(a.x1, b.x1), Min(a.y1, b.y1))


-----------------------------------------------------------------------------
(***************************************************************************)
(* Bounds of the model.                                                    *)
(***************************************************************************)
MaxPages == 4        \* documents of 0..MaxPages pages
MaxProcessors == 3   \* max_processors in -1..MaxProcessors
MaxSegPages == 10       \* get_page_segments alone: num_pages in 0..MaxSegPages
MaxSegProcessors == 10  \* ... and max_processors in -1..MaxSegProcessors
MaxTables == 3       \* merge_tables on lists of 0..MaxTables rectangles
MaxRawTables == 2    \* get_ordered_content on pages of 0..MaxRawTables detected tables
MaxBlocks == 3       \* column_boxes on pages of 0..MaxBlocks text blocks

-----------------------------------------------------------------------------
(***************************************************************************)
(* The page orchestrator: get_page_segments.                               *)
(***************************************************************************)

\* The for loop of get_page_segments from iteration i on: append
\* (start_page, end_page), stop once start_page >= num_pages.
RECURSIVE SegmentsLoop(_, _, _, _, _)
SegmentsLoop(i, start_page, chunks, n, m) ==
    IF i >= m THEN chunks
    ELSE LET chunk_size == n \div m
             remainder == n % m
             extra == IF i < remainder THEN 1 ELSE 0
             end_page == Min(start_page + chunk_size + extra, n)
             chunks2 == Append(chunks, <<start_page, end_page>>)
         IN  IF end_page >= n THEN chunks2
             ELSE SegmentsLoop(i + 1, end_page, chunks2, n, m)

\* An off-by-one remainder test: the extra page goes to segments 0..remainder.
GetPageSegmentsExtraOff(n, m) ==
    LET RECURSIVE Loop(_, _, _)
        Loop(i, start_page, chunks) ==
            IF i >= m THEN chunks
            ELSE LET extra == IF i <= n % m THEN 1 ELSE 0
                     end_page == Min(start_page + (n \div m) + extra, n)
                     chunks2 == Append(chunks, <<start_page, end_page>>)
                 IN  IF end_page >= n THEN chunks2
                     ELSE Loop(i + 1, end_page, chunks2)
    IN  [raised |-> m <= 0, chunks |-> IF m <= 0 THEN <<>> ELSE Loop(0, 0, <<>>)]

\* The loop without its early break: one segment per processor, empty ones
\* included.
GetPageSegmentsNoBreak(n, m) ==
    LET RECURSIVE Loop(_, _, _)
        Loop(i, start_page, chunks) ==
            IF i >= m THEN chunks
            ELSE LET extra == IF i < n % m THEN 1 ELSE 0
                     end_page == Min(start_page + (n \div m) + extra, n)
                 IN  Loop(i + 1, end_page, Append(chunks, <<start_page, end_page>>))
    IN  [raised |-> m <= 0, chunks |-> IF m <= 0 THEN <<>> ELSE Loop(0, 0, <<>>)]

\* The guard on max_processors left out.
GetPageSegmentsNoGuard(n, m) ==
    [raised |-> FALSE, chunks |-> SegmentsLoop(0, 0, <<>>, n, m)]

\* get_page_segments(num_pages) of a parser with max_processors = m:
\* raises ValueError when m <= 0, before chunk_size is computed.
get_page_segments(n, m) ==
    IF m <= 0
    THEN [raised |-> TRUE, chunks |-> <<>>]
    ELSE [raised |-> FALSE, chunks |-> SegmentsLoop(0, 0, <<>>, n, m)]

-----------------------------------------------------------------------------
(***************************************************************************)
(* The pages of a document.  A page is known to parse by what              *)
(* get_ordered_content returns for it, or by failing in the worker         *)
(* (doc[page_num], wrap_contents or get_ordered_content raising).          *)
(***************************************************************************)
ContentKinds == {"text", "split"}
PageKinds == ContentKinds \cup {"bad"}

\* get_ordered_content(page) of a page of each kind: one column, or a
\* column split by one table.
PageContent(kind) ==
    IF kind = "text"
    THEN << <<IRect(0, 0, 4, 6), "text">> >>
    ELSE << <<IRect(0, 0, 4, 2), "text">>,
            <<IRect(0, 2, 4, 3), "table">>,
            <<IRect(0, 3, 4, 6), "text">> >>

\* The page loop of process_page_chunk from page_num on.
RECURSIVE ChunkLoop(_, _, _, _)
ChunkLoop(pages, page_num, end_page, res) ==
    IF page_num >= end_page THEN [raised |-> FALSE, results |-> res]
    ELSE IF pages[page_num + 1] = "bad" THEN [raised |-> TRUE, results |-> <<>>]
    ELSE ChunkLoop(pages, page_num + 1, end_page,
                   Append(res, <<page_num, PageContent(pages[page_num + 1])>>))

\* A page range that stops one page early.
ProcessPageChunkShort(pages, start_page, end_page) ==
    ChunkLoop(pages, start_page, end_page - 1, <<>>)

\* A worker that swallows the page's exception and returns what it has.
ProcessPageChunkSwallow(pages, start_page, end_page) ==
    LET RECURSIVE Loop(_, _)
        Loop(page_num, res) ==
            IF page_num >= end_page \/ pages[page_num + 1] = "bad"
            THEN [raised |-> FALSE, results |-> res]
            ELSE Loop(page_num + 1,
                      Append(res, <<page_num, PageContent(pages[page_num + 1])>>))
    IN  Loop(start_page, <<>>)

\* process_page_chunk((file, start_page, end_page))
process_page_chunk(pages, start_page, end_page) ==
    ChunkLoop(pages, start_page, end_page, <<>>)

\* [result for chunk in chunk_results for result in chunk]
RECURSIVE Flatten(_)
Flatten(chunks) ==
    IF chunks = <<>> THEN <<>> ELSE Head(chunks) \o Flatten(Tail(chunks))

\* list.sort on (key, value) pairs by the key: a stable sort, as insertion
\* after the last entry whose key is not greater.
RECURSIVE InsertByKey(_, _)
InsertByKey(sorted, x) ==
    IF sorted = <<>> THEN <<x>>
    ELSE IF sorted[Len(sorted)][1] <= x[1] THEN Append(sorted, x)
    ELSE Append(InsertByKey(SubSeq(sorted, 1, Len(sorted) - 1), x),
                sorted[Len(sorted)])

RECURSIVE StableSort(_)
StableSort(s) ==
    IF s = <<>> THEN <<>>
    ELSE InsertByKey(StableSort(SubSeq(s, 1, Len(s) - 1)), s[Len(s)])

\* results.sort(key=lambda x: x[0])
SortResults(res) == StableSort(res)

\* extract_bbox_text(page, bbox): the oracle's trimmed text of the page
\* inside bbox, kept as the call that produces it.
extract_bbox_text(page_num, bbox) == [page |-> page_num, clip |-> bbox]

\* Element(text, category, start_page, end_page)
Element(text, category, start_page, end_page) ==
    [text |-> text, category |-> category,
     start_page |-> start_page, end_page |-> end_page]

\* The Elements of one (page_num, content) pair.
PageElements(result) ==
    LET page_num == result[1]
        content == result[2]
    IN  [k \in 1..Len(content) |->
            Element(extract_bbox_text(page_num, content[k][1]),
                    content[k][2], page_num + 1, page_num + 1)]

\* The list comprehension building elements, over the results in order.
RECURSIVE ToElements(_)
ToElements(res) ==
    IF res = <<>> THEN <<>> ELSE PageElements(Head(res)) \o ToElements(Tail(res))


-----------------------------------------------------------------------------
(***************************************************************************)
(* Idle values of the parts a specification does not run.                  *)
(***************************************************************************)
ParseIdle ==
    /\ file = [ok |-> TRUE, pages |-> <<>>]
    /\ pc = "idle"
    /\ num_pages = 0
    /\ page_segments = <<>>
    /\ num_utilized_processors = 0
    /\ futures = <<>>
    /\ completion_order = <<>>
    /\ next_result = 1
    /\ chunk_results = <<>>
    /\ results = <<>>
    /\ elements = <<>>
    /\ error = NoError

MergeIdle ==
    /\ table_bboxes = <<>>
    /\ mpc = "idle"
    /\ merged = <<>>
    /\ remerged = <<>>
    /\ permuted = <<>>
    /\ merged_permuted = <<>>

ContentIdle ==
    /\ text_bboxes = <<>>
    /\ merged_tables = <<>>
    /\ gpc = "idle"
    /\ column_index = 1
    /\ intersecting_tables = <<>>
    /\ table_index = 1
    /\ current_bbox = None
    /\ ordered_content = <<>>
    /\ processed_tables = {}
    /\ column_start = 0
    /\ oracle_log = {}

ColumnIdle ==
    /\ page = [rect |-> IRect(0, 0, 0, 0), drawings |-> <<>>, images |-> <<>>,
               blocks |-> <<>>, raises |-> "none"]
    /\ header_margin = 0
    /\ footer_margin = 0
    /\ no_image_text = FALSE
    /\ cpc = "idle"
    /\ clip = None
    /\ path_bboxes = <<>>
    /\ img_bboxes = <<>>
    /\ vert_bboxes = <<>>
    /\ col_bboxes = <<>>
    /\ nblocks = <<>>
    /\ loop_index = 1
    /\ column_error = FALSE
    /\ column_result = <<>>

-----------------------------------------------------------------------------
(***************************************************************************)
(* parse(file).                                                            *)
(***************************************************************************)

\* All sequences of length 0..n over S.
SeqsUpTo(S, n) == UNION {[1..k -> S] : k \in 0..n}

ParseInit ==
    /\ max_processors \in -1..MaxProcessors
    /\ tolerance = 0
    /\ file \in [ok : BOOLEAN, pages : SeqsUpTo(PageKinds, MaxPages)]
    /\ pc = "open"
    /\ num_pages = 0
    /\ page_segments = <<>>
    /\ num_utilized_processors = 0
    /\ futures = <<>>
    /\ completion_order = <<>>
    /\ next_result = 1
    /\ chunk_results = <<>>
    /\ results = <<>>
    /\ elements = <<>>
    /\ error = NoError
    /\ MergeIdle
    /\ ContentIdle
    /\ ColumnIdle

\* doc = fitz.open(stream=file, filetype="pdf"); num_pages = len(doc).
\* A file fitz cannot open raises, and the except clause re-raises.
ParseOpen ==
    /\ pc = "open"
    /\ IF file.ok
       THEN /\ num_pages' = Len(file.pages)
            /\ pc' = "segments"
            /\ error' = NoError
       ELSE /\ num_pages' = num_pages
            /\ pc' = "raised"
            /\ error' = "open"
    /\ UNCHANGED <<file, page_segments, num_utilized_processors, futures,
                   completion_order, next_result, chunk_results, results,
                   elements>>
    /\ UNCHANGED <<initVars, mergeVars, contentVars, columnVars>>

\* page_segments = self.get_page_segments(num_pages);
\* num_utilized_processors = len(page_segments)
ParseSegments ==
    /\ pc = "segments"
    /\ LET r == get_page_segments(num_pages, max_processors)
       IN  IF r.raised
           THEN /\ pc' = "raised"
                /\ error' = "ValueError"
                /\ UNCHANGED <<page_segments, num_utilized_processors>>
           ELSE /\ page_segments' = r.chunks
                /\ num_utilized_processors' = Len(r.chunks)
                /\ pc' = "submit"
                /\ error' = NoError
    /\ UNCHANGED <<file, num_pages, futures, completion_order, next_result,
                   chunk_results, results, elements>>
    /\ UNCHANGED <<initVars, mergeVars, contentVars, columnVars>>

\* ProcessPoolExecutor(max_workers=num_utilized_processors) and
\* executor.map(self.process_page_chunk, chunk_args): one future per chunk.
ParseSubmit ==
    /\ pc = "submit"
    /\ futures' = [w \in 1..Len(page_segments) |->
                      [state |-> "pending", result |-> <<>>]]
    /\ next_result' = 1
    /\ pc' = "map"
    /\ UNCHANGED <<file, num_pages, page_segments, num_utilized_processors,
                   completion_order, chunk_results, results, elements, error>>
    /\ UNCHANGED <<initVars, mergeVars, contentVars, columnVars>>

\* A pool process runs process_page_chunk on chunk w, in any order with
\* respect to the other chunks.
WorkerRun(w) ==
    /\ pc \in {"map", "shutdown"}
    /\ futures[w].state = "pending"
    /\ LET r == process_page_chunk(file.pages, page_segments[w][1],
                                   page_segments[w][2])
       IN  futures' = [futures EXCEPT ![w] =
                         [state |-> IF r.raised THEN "failed" ELSE "done",
                          result |-> r.results]]
    /\ completion_order' = Append(completion_order, w)
    /\ UNCHANGED <<file, pc, num_pages, page_segments,
                   num_utilized_processors, next_result, chunk_results,
                   results, elements, error>>
    /\ UNCHANGED <<initVars, mergeVars, contentVars, columnVars>>

\* Once a result has raised, executor.map's generator cancels the futures
\* that have not started.
WorkerCancel(w) ==
    /\ pc = "shutdown"
    /\ futures[w].state = "pending"
    /\ futures' = [futures EXCEPT ![w].state = "cancelled"]
    /\ UNCHANGED <<file, pc, num_pages, page_segments,
                   num_utilized_processors, completion_order, next_result,
                   chunk_results, results, elements, error>>
    /\ UNCHANGED <<initVars, mergeVars, contentVars, columnVars>>

\* list(executor.map(...)) takes the next result, in submission order.
MapNext ==
    /\ pc = "map"
    /\ next_result <= Len(futures)
    /\ futures[next_result].state = "done"
    /\ chunk_results' = Append(chunk_results, futures[next_result].result)
    /\ next_result' = next_result + 1
    /\ UNCHANGED <<file, pc, num_pages, page_segments,
                   num_utilized_processors, futures, completion_order,
                   results, elements, error>>
    /\ UNCHANGED <<initVars, mergeVars, contentVars, columnVars>>

\* The next result is a worker's exception: it is raised in parse.
MapRaise ==
    /\ pc = "map"
    /\ next_result <= Len(futures)
    /\ futures[next_result].state = "failed"
    /\ pc' = "shutdown"
    /\ error' = "worker"
    /\ UNCHANGED <<file, num_pages, page_segments, num_utilized_processors,
                   futures, completion_order, next_result, chunk_results,
                   results, elements>>
    /\ UNCHANGED <<initVars, mergeVars, contentVars, columnVars>>

\* The with block exits with the exception once every worker has stopped
\* (shutdown(wait=True)); the except clause re-raises.
ShutdownRaise ==
    /\ pc = "shutdown"
    /\ \A w \in 1..Len(futures) : futures[w].state # "pending"
    /\ pc' = "raised"
    /\ UNCHANGED <<file, num_pages, page_segments, num_utilized_processors,
                   futures, completion_order, next_result, chunk_results,
                   results, elements, error>>
    /\ UNCHANGED <<initVars, mergeVars, contentVars, columnVars>>

\* Every result is in: results = [result for chunk in chunk_results ...]
MapDone ==
    /\ pc = "map"
    /\ next_result > Len(futures)
    /\ results' = Flatten(chunk_results)
    /\ pc' = "sort"
    /\ UNCHANGED <<file, num_pages, page_segments, num_utilized_processors,
                   futures, completion_order, next_result, chunk_results,
                   elements, error>>
    /\ UNCHANGED <<initVars, mergeVars, contentVars, columnVars>>

\* results.sort(key=lambda x: x[0])
ParseSort ==
    /\ pc = "sort"
    /\ results' = SortResults(results)
    /\ pc' = "convert"
    /\ UNCHANGED <<file, num_pages, page_segments, num_utilized_processors,
                   futures, completion_order, next_result, chunk_results,
                   elements, error>>
    /\ UNCHANGED <<initVars, mergeVars, contentVars, columnVars>>

\* elements = [Element(...) ...]; doc.close(); return elements, num_pages
ParseReturn ==
    /\ pc = "convert"
    /\ elements' = ToElements(results)
    /\ pc' = "returned"
    /\ UNCHANGED <<file, num_pages, page_segments, num_utilized_processors,
                   futures, completion_order, next_result, chunk_results,
                   results, error>>
    /\ UNCHANGED <<initVars, mergeVars, contentVars, columnVars>>

ParseNext ==
    \/ ParseOpen
    \/ ParseSegments
    \/ ParseSubmit
    \/ \E w \in 1..Len(futures) : WorkerRun(w)
    \/ \E w \in 1..Len(futures) : WorkerCancel(w)
    \/ MapNext
    \/ MapRaise
    \/ ShutdownRaise
    \/ MapDone
    \/ ParseSort
    \/ ParseReturn

Spec == ParseInit /\ [][ParseNext]_vars


-----------------------------------------------------------------------------
(***************************************************************************)
(* get_page_segments called on its own, on documents larger than the ones  *)
(* the whole of parse is run on: parse just after len(doc).                *)
(***************************************************************************)
SegInit ==
    /\ max_processors \in -1..MaxSegProcessors
    /\ tolerance = 0
    /\ \E n \in 0..MaxSegPages :
          /\ file = [ok |-> TRUE, pages |-> [p \in 1..n |-> "text"]]
          /\ num_pages = n
    /\ pc = "segments"
    /\ page_segments = <<>>
    /\ num_utilized_processors = 0
    /\ futures = <<>>
    /\ completion_order = <<>>
    /\ next_result = 1
    /\ chunk_results = <<>>
    /\ results = <<>>
    /\ elements = <<>>
    /\ error = NoError
    /\ MergeIdle
    /\ ContentIdle
    /\ ColumnIdle

SegNext == ParseSegments

SegSpec == SegInit /\ [][SegNext]_vars

-----------------------------------------------------------------------------
(***************************************************************************)
(* Claims about the page orchestrator.                                     *)
(***************************************************************************)

SegmentSize(seg) == seg[2] - seg[1]

\* The segments that hold page p (0-based).
SegmentsOfPage(segs, p) == {k \in 1..Len(segs) : segs[k][1] <= p /\ p < segs[k][2]}

\* The partition the claim describes, for n pages and m processors.
IsBalancedPartition(segs, n, m) ==
    /\ Len(segs) >= 1
    /\ Len(segs) <= m
    /\ segs[1][1] = 0
    /\ segs[Len(segs)][2] = n
    /\ \A k \in 1..Len(segs) : segs[k][1] <= segs[k][2]
    /\ \A k \in 1..(Len(segs) - 1) : segs[k][2] = segs[k + 1][1]
    /\ \A p \in 0..(n - 1) : Cardinality(SegmentsOfPage(segs, p)) = 1
    /\ \A k \in 1..Len(segs) :
          SegmentSize(segs[k]) = (n \div m) + (IF k <= n % m THEN 1 ELSE 0)
    /\ n > 0 => \A k \in 1..Len(segs) : SegmentSize(segs[k]) > 0
    /\ n = 0 => segs = << <<0, 0>> >>

\* C1: for every num_pages >= 0 and max_processors > 0, get_page_segments
\* returns contiguous, in-order, non-overlapping segments that start at 0,
\* end at num_pages and cover every page exactly once, at most
\* max_processors of them, the first (num_pages mod max_processors) of
\* size (num_pages div max_processors) + 1 and the rest of size
\* (num_pages div max_processors), none empty when num_pages > 0 and
\* exactly [(0,0)] when num_pages = 0; (10,4), (5,3) and (5,10) give the
\* segments the specification lists.
C1_SegmentsPartition ==
    (pc = "submit" /\ max_processors > 0) =>
        /\ IsBalancedPartition(page_segments, num_pages, max_processors)
        /\ (num_pages = 10 /\ max_processors = 4) =>
              page_segments = << <<0, 3>>, <<3, 6>>, <<6, 8>>, <<8, 10>> >>
        /\ (num_pages = 5 /\ max_processors = 3) =>
              page_segments = << <<0, 2>>, <<2, 4>>, <<4, 5>> >>
        /\ (num_pages = 5 /\ max_processors = 10) =>
              page_segments = << <<0, 1>>, <<1, 2>>, <<2, 3>>, <<3, 4>>, <<4, 5>> >>

\* get_page_segments has returned for 10 pages and 4 processors.
C1_Witness ==
    /\ pc = "submit"
    /\ num_pages = 10
    /\ max_processors = 4
    /\ Len(page_segments) = 4


\* The elements of page p (0-based), in the order parse returned them.
ElementsOfPage(p) == SelectSeq(elements, LAMBDA e : e.start_page = p + 1)

\* C2: for any document and any order in which the workers complete, once
\* all workers have joined the merged result holds exactly one
\* (page_index, regions) entry for every page in [0, num_pages), sorted by
\* page_index, and the Elements parse returns follow that order: their page
\* numbers never decrease, each page's regions keep their order, and every
\* element has start_page = end_page = page_index + 1.
C2_GlobalPageOrder ==
    /\ pc \in {"convert", "returned"} =>
          /\ Len(results) = num_pages
          /\ \A i \in 1..Len(results) :
                /\ results[i][1] = i - 1
                /\ results[i][2] = PageContent(file.pages[i])
    /\ pc = "returned" =>
          /\ \A k \in 1..(Len(elements) - 1) :
                elements[k].start_page <= elements[k + 1].start_page
          /\ \A k \in 1..Len(elements) :
                /\ elements[k].start_page = elements[k].end_page
                /\ elements[k].start_page \in 1..num_pages
          /\ \A p \in 0..(num_pages - 1) :
                LET content == PageContent(file.pages[p + 1])
                    got == ElementsOfPage(p)
                IN  /\ Len(got) = Len(content)
                    /\ \A k \in 1..Len(got) :
                          /\ got[k].text = extract_bbox_text(p, content[k][1])
                          /\ got[k].category = content[k][2]

\* parse has returned although the worker of the first segment was not the
\* first to complete, on a document with pages of both kinds.
C2_Witness ==
    /\ pc = "returned"
    /\ Len(completion_order) >= 2
    /\ completion_order[1] # 1
    /\ \E p, q \in 1..num_pages : file.pages[p] = "text" /\ file.pages[q] = "split"

\* C3: parse returns elements only if the document opened and every worker
\* finished without error; if opening fails or any per-page worker raises,
\* parse raises that error and returns no elements at all, none for the
\* pages that succeeded either.
C3_AllOrNothing ==
    /\ pc = "returned" =>
          /\ file.ok
          /\ error = NoError
          /\ \A w \in 1..Len(futures) : futures[w].state = "done"
          /\ \A p \in 1..Len(file.pages) : file.pages[p] # "bad"
    /\ pc # "returned" => elements = <<>>
    /\ ~file.ok => pc \in {"open", "raised"} /\ (pc = "raised" => error = "open")
    /\ (\E w \in 1..Len(futures) : futures[w].state = "failed") =>
          /\ pc \in {"map", "shutdown", "raised"}
          /\ pc = "raised" => error = "worker"
    /\ pc = "raised" => error # NoError

\* parse has raised a worker's error although another worker had finished
\* its pages.
C3_Witness ==
    /\ pc = "raised"
    /\ error = "worker"
    /\ \E w \in 1..Len(futures) :
          futures[w].state = "done" /\ futures[w].result # <<>>

\* C4: when max_processors <= 0, for every num_pages, the call fails with
\* the configuration error before any work starts: no page segment is
\* computed and no worker is dispatched.
C4_ConfigurationError ==
    (max_processors <= 0 /\ file.ok) =>
        /\ pc \in {"open", "segments", "raised"}
        /\ pc = "raised" => error = "ValueError"
        /\ page_segments = <<>>
        /\ num_utilized_processors = 0
        /\ futures = <<>>
        /\ completion_order = <<>>
        /\ elements = <<>>

\* parse has raised the configuration error on a document with pages.
C4_Witness ==
    /\ max_processors <= 0
    /\ num_pages > 0
    /\ pc = "raised"
    /\ error = "ValueError"

\* The segments with at least one page.
NonEmptySegments(segs) == {k \in 1..Len(segs) : SegmentSize(segs[k]) > 0}

WorkersProvisioned ==
    pc \in {"map", "shutdown", "sort", "convert", "returned"}
    \/ (pc = "raised" /\ error = "worker")

\* C5 as stated: for every num_pages >= 0 and max_processors > 0 the
\* number of workers parse provisions is min(max_processors, number of
\* non-empty page segments), and no worker with an empty page range is
\* spawned.
C5_AsStated ==
    WorkersProvisioned =>
        /\ num_utilized_processors =
              Min(max_processors, Cardinality(NonEmptySegments(page_segments)))
        /\ Len(futures) = num_utilized_processors
        /\ \A w \in 1..Len(futures) : SegmentSize(page_segments[w]) > 0

\* C5 amended: for num_pages >= 1 and max_processors > 0 the number of
\* workers parse provisions is min(max_processors, number of non-empty
\* page segments) and none has an empty page range; for num_pages = 0 it
\* provisions exactly one worker, whose page range (0,0) is empty.
C5_WorkerCount ==
    WorkersProvisioned =>
        /\ Len(futures) = num_utilized_processors
        /\ num_pages >= 1 =>
              /\ num_utilized_processors =
                    Min(max_processors, Cardinality(NonEmptySegments(page_segments)))
              /\ \A w \in 1..Len(futures) : SegmentSize(page_segments[w]) > 0
        /\ num_pages = 0 =>
              /\ num_utilized_processors = 1
              /\ page_segments = << <<0, 0>> >>

\* parse has provisioned fewer workers than max_processors, for a document
\* with fewer pages than processors.
C5_Witness ==
    /\ WorkersProvisioned
    /\ num_pages >= 1
    /\ num_pages < max_processors
    /\ Len(futures) = num_pages


-----------------------------------------------------------------------------
(***************************************************************************)
(* The table merger: should_merge_tables and merge_tables.                 *)
(***************************************************************************)

\* <= where the code has <: edges exactly the tolerance apart count as
\* aligned and close.
ShouldMergeInclusive(bbox1, bbox2, T) ==
    LET horizontally_aligned ==
            Abs(bbox1.y0 - bbox2.y0) <= T /\ Abs(bbox1.y1 - bbox2.y1) <= T
        vertically_aligned ==
            Abs(bbox1.x0 - bbox2.x0) <= T /\ Abs(bbox1.x1 - bbox2.x1) <= T
        horizontal_distance ==
            Min(Abs(bbox1.x1 - bbox2.x0), Abs(bbox2.x1 - bbox1.x0))
        vertical_distance ==
            Min(Abs(bbox1.y1 - bbox2.y0), Abs(bbox2.y1 - bbox1.y0))
        is_close == horizontal_distance <= T \/ vertical_distance <= T
    IN  (horizontally_aligned \/ vertically_aligned) /\ is_close

\* The distances measured from bbox1 to bbox2 only, without the min over
\* both directions.
ShouldMergeOneWay(bbox1, bbox2, T) ==
    LET horizontally_aligned ==
            Abs(bbox1.y0 - bbox2.y0) < T /\ Abs(bbox1.y1 - bbox2.y1) < T
        vertically_aligned ==
            Abs(bbox1.x0 - bbox2.x0) < T /\ Abs(bbox1.x1 - bbox2.x1) < T
        horizontal_distance == Abs(bbox1.x1 - bbox2.x0)
        vertical_distance == Abs(bbox1.y1 - bbox2.y0)
        is_close == horizontal_distance < T \/ vertical_distance < T
    IN  (horizontally_aligned \/ vertically_aligned) /\ is_close

\* "and" where the code has "or": close only when both distances are
\* below the tolerance.
ShouldMergeBothClose(bbox1, bbox2, T) ==
    LET horizontally_aligned ==
            Abs(bbox1.y0 - bbox2.y0) < T /\ Abs(bbox1.y1 - bbox2.y1) < T
        vertically_aligned ==
            Abs(bbox1.x0 - bbox2.x0) < T /\ Abs(bbox1.x1 - bbox2.x1) < T
        horizontal_distance ==
            Min(Abs(bbox1.x1 - bbox2.x0), Abs(bbox2.x1 - bbox1.x0))
        vertical_distance ==
            Min(Abs(bbox1.y1 - bbox2.y0), Abs(bbox2.y1 - bbox1.y0))
        is_close == horizontal_distance < T /\ vertical_distance < T
    IN  (horizontally_aligned \/ vertically_aligned) /\ is_close

\* should_merge_tables(bbox1, bbox2) of a parser with tolerance T
should_merge_tables(bbox1, bbox2, T) ==
    LET horizontally_aligned ==
            Abs(bbox1.y0 - bbox2.y0) < T /\ Abs(bbox1.y1 - bbox2.y1) < T
        vertically_aligned ==
            Abs(bbox1.x0 - bbox2.x0) < T /\ Abs(bbox1.x1 - bbox2.x1) < T
        horizontal_distance ==
            Min(Abs(bbox1.x1 - bbox2.x0), Abs(bbox2.x1 - bbox1.x0))
        vertical_distance ==
            Min(Abs(bbox1.y1 - bbox2.y0), Abs(bbox2.y1 - bbox1.y0))
        is_close == horizontal_distance < T \/ vertical_distance < T
    IN  (horizontally_aligned \/ vertically_aligned) /\ is_close

\* The bounding union merge_tables builds for a group and a rectangle.
BoundingUnion(a, b) ==
    IRect(Min(a.x0, b.x0), Min(a.y0, b.y0), Max(a.x1, b.x1), Max(a.y1, b.y1))

\* The for loop of merge_tables from table_bboxes[k] on, then the final
\* merged.append(current_group).
RECURSIVE MergeLoop(_, _, _, _, _)
MergeLoop(bboxes, k, group, acc, T) ==
    IF k > Len(bboxes) THEN Append(acc, group)
    ELSE IF should_merge_tables(group, bboxes[k], T)
    THEN MergeLoop(bboxes, k + 1, BoundingUnion(group, bboxes[k]), acc, T)
    ELSE MergeLoop(bboxes, k + 1, bboxes[k], Append(acc, group), T)

\* The loop without the append after it: the last group is lost.
MergeTablesDropLast(bboxes, T) ==
    IF bboxes = <<>> THEN <<>>
    ELSE LET all == MergeLoop(bboxes, 2, bboxes[1], <<>>, T)
         IN  SubSeq(all, 1, Len(all) - 1)

\* Each rectangle tested against the rectangle before it, not against the
\* group accumulated so far.
MergeTablesAgainstPrevious(bboxes, T) ==
    LET RECURSIVE Loop(_, _, _)
        Loop(k, group, acc) ==
            IF k > Len(bboxes) THEN Append(acc, group)
            ELSE IF should_merge_tables(bboxes[k - 1], bboxes[k], T)
            THEN Loop(k + 1, BoundingUnion(group, bboxes[k]), acc)
            ELSE Loop(k + 1, bboxes[k], Append(acc, group))
    IN  IF bboxes = <<>> THEN <<>> ELSE Loop(2, bboxes[1], <<>>)

\* merge_tables(table_bboxes) of a parser with tolerance T
merge_tables(bboxes, T) ==
    IF bboxes = <<>> THEN <<>>
    ELSE MergeLoop(bboxes, 2, bboxes[1], <<>>, T)

\* The table rectangles merge_tables is run on: the rectangles of the
\* repository's tests and of the specification's examples, three fragments
\* side by side, a fragment overlapping two of them, and two stacked below.
TableRects ==
    { IRect(0, 0, 10, 10), IRect(9, 9, 20, 20), IRect(20, 20, 30, 30),
      IRect(50, 50, 60, 60),
      IRect(10, 0, 20, 10), IRect(20, 0, 30, 10), IRect(6, 0, 14, 10),
      IRect(0, 10, 10, 20), IRect(0, 30, 10, 40) }

\* The tolerances: none, a small one, the tests' 20, and one above it.
Tolerances == {0, 5, 20, 21}

\* The orders of a list of n items.
OrdersOf(n) ==
    {f \in [1..n -> 1..n] : \A i, j \in 1..n : f[i] = f[j] => i = j}

MergeInit ==
    /\ max_processors = 1
    /\ tolerance \in Tolerances
    /\ table_bboxes \in SeqsUpTo(TableRects, MaxTables)
    /\ mpc = "call"
    /\ merged = <<>>
    /\ remerged = <<>>
    /\ permuted = <<>>
    /\ merged_permuted = <<>>
    /\ ParseIdle
    /\ ContentIdle
    /\ ColumnIdle

\* merged = self.merge_tables(table_bboxes)
MergeTables ==
    /\ mpc = "call"
    /\ merged' = merge_tables(table_bboxes, tolerance)
    /\ mpc' = "merged"
    /\ UNCHANGED <<table_bboxes, remerged, permuted, merged_permuted>>
    /\ UNCHANGED <<initVars, parseVars, contentVars, columnVars>>

\* merge_tables called on its own output
MergeAgain ==
    /\ mpc = "merged"
    /\ remerged' = merge_tables(merged, tolerance)
    /\ mpc' = "remerged"
    /\ UNCHANGED <<table_bboxes, merged, permuted, merged_permuted>>
    /\ UNCHANGED <<initVars, parseVars, contentVars, columnVars>>

\* merge_tables called on the same rectangles in another order
MergePermuted ==
    /\ mpc = "merged"
    /\ \E f \in OrdersOf(Len(table_bboxes)) :
          /\ permuted' = [i \in 1..Len(table_bboxes) |-> table_bboxes[f[i]]]
          /\ merged_permuted' = merge_tables(permuted', tolerance)
    /\ mpc' = "permuted"
    /\ UNCHANGED <<table_bboxes, merged, remerged>>
    /\ UNCHANGED <<initVars, parseVars, contentVars, columnVars>>

MergeNext ==
    \/ MergeTables
    \/ MergeAgain
    \/ MergePermuted

MergeSpec == MergeInit /\ [][MergeNext]_vars

-----------------------------------------------------------------------------
(***************************************************************************)
(* Claims about the table merger.                                          *)
(***************************************************************************)

\* The two rectangles of the example: (0,0)-(10,10) then (20,20)-(30,30).
ExampleInput == <<IRect(0, 0, 10, 10), IRect(20, 20, 30, 30)>>

\* Every pair of corresponding edges of a and b is exactly T apart.
EdgesExactlyApart(a, b, T) ==
    /\ Abs(a.x0 - b.x0) = T
    /\ Abs(a.y0 - b.y0) = T
    /\ Abs(a.x1 - b.x1) = T
    /\ Abs(a.y1 - b.y1) = T

\* C8 as stated: two table rectangles whose corresponding edges differ by
\* exactly the tolerance T count as within tolerance: merge_tables on
\* (0,0)-(10,10) followed by (20,20)-(30,30) returns one merged rectangle
\* when T = 20 and two separate rectangles when T = 5.
C8_AsStated ==
    (mpc = "merged" /\ table_bboxes = ExampleInput) =>
        /\ tolerance = 20 => Len(merged) = 1
        /\ tolerance = 5 => Len(merged) = 2

\* C8 amended: two table rectangles whose corresponding edges differ by
\* exactly the tolerance T are not within tolerance (the comparisons are
\* strict): merge_tables on (0,0)-(10,10) followed by (20,20)-(30,30)
\* returns the two rectangles unmerged when T = 20 and when T = 5, and one
\* merged rectangle (0,0)-(30,30) only when T exceeds 20 (T = 21).
C8_ExactToleranceNotMerged ==
    /\ (mpc = "merged" /\ table_bboxes = ExampleInput) =>
          /\ tolerance = 20 => merged = ExampleInput
          /\ tolerance = 5 => merged = ExampleInput
          /\ tolerance = 21 => merged = <<IRect(0, 0, 30, 30)>>
    /\ (mpc = "merged" /\ Len(table_bboxes) = 2
          /\ EdgesExactlyApart(table_bboxes[1], table_bboxes[2], tolerance)) =>
          merged = table_bboxes

\* merge_tables has returned for the example with tolerance 20.
C8_Witness ==
    /\ mpc = "merged"
    /\ table_bboxes = ExampleInput
    /\ tolerance = 20
    /\ Len(merged) = 2

\* Some two consecutive rectangles of s satisfy should_merge_tables.
AdjacentPairMerges(s, T) ==
    \E k \in 1..(Len(s) - 1) : should_merge_tables(s[k], s[k + 1], T)

\* C9 as stated: merge_tables is idempotent: for every input list and every
\* tolerance, merge_tables(merge_tables(L)) = merge_tables(L).
C9_AsStated ==
    mpc = "remerged" => remerged = merged

\* C9 amended: merge_tables(merge_tables(L)) = merge_tables(L) exactly when
\* no two consecutive rectangles of merge_tables(L) satisfy should_merge,
\* which is so for every list of at most two rectangles; for longer lists
\* a second call can merge a closed group with the group after it.
C9_IdempotentUnlessGroupsMerge ==
    mpc = "remerged" =>
        /\ (remerged = merged) <=> ~AdjacentPairMerges(merged, tolerance)
        /\ Len(table_bboxes) <= 2 => remerged = merged
        /\ Len(remerged) <= Len(merged)

\* merge_tables has been called on an output of two groups that it left
\* unchanged, the first a union of two input rectangles.
C9_Witness ==
    /\ mpc = "remerged"
    /\ Len(table_bboxes) = 3
    /\ Len(merged) = 2
    /\ merged[1] # table_bboxes[1]
    /\ remerged = merged

\* Every two rectangles of s satisfy should_merge_tables.
AllPairsMerge(s, T) ==
    \A i, j \in 1..Len(s) : i # j => should_merge_tables(s[i], s[j], T)

\* C10 as stated: for any list of table rectangles in which every pair
\* satisfies should_merge, every permutation of the list gives the same
\* merged output (in particular should_merge(a,b) = should_merge(b,a) and
\* merge_tables([a,b]) = merge_tables([b,a])).
C10_AsStated ==
    (mpc = "permuted" /\ AllPairsMerge(table_bboxes, tolerance)) =>
        merged_permuted = merged

\* C10 amended: should_merge(a,b) = should_merge(b,a) for any two
\* rectangles, and for any list of at most two rectangles in which every
\* pair satisfies should_merge, every permutation gives the same merged
\* output, the bounding union: merge_tables([a,b]) = merge_tables([b,a]).
\* Three or more pairwise-mergeable rectangles can merge differently in
\* different orders.
C10_PairsCommute ==
    mpc = "permuted" =>
        /\ \A i, j \in 1..Len(table_bboxes) :
              should_merge_tables(table_bboxes[i], table_bboxes[j], tolerance)
                = should_merge_tables(table_bboxes[j], table_bboxes[i], tolerance)
        /\ (Len(table_bboxes) <= 2 /\ AllPairsMerge(table_bboxes, tolerance)) =>
              merged_permuted = merged
        /\ (Len(table_bboxes) = 2 /\ AllPairsMerge(table_bboxes, tolerance)) =>
              merged = <<BoundingUnion(table_bboxes[1], table_bboxes[2])>>

\* merge_tables has been called on [a,b] and on [b,a] for two different
\* rectangles that satisfy should_merge.
C10_Witness ==
    /\ mpc = "permuted"
    /\ Len(table_bboxes) = 2
    /\ table_bboxes[1] # table_bboxes[2]
    /\ permuted = <<table_bboxes[2], table_bboxes[1]>>
    /\ AllPairsMerge(table_bboxes, tolerance)
    /\ Len(merged_permuted) = 1


\* The bounding rectangle of s[a..b].
RunUnion(s, a, b) ==
    LET run == {s[k] : k \in a..b}
        Least(S) == CHOOSE x \in S : \A y \in S : x <= y
        Most(S) == CHOOSE x \in S : \A y \in S : x >= y
    IN  IRect(Least({r.x0 : r \in run}), Least({r.y0 : r \in run}),
              Most({r.x1 : r \in run}), Most({r.y1 : r \in run}))

\* s[a..b] is a maximal run: every rectangle after the first satisfies
\* should_merge with the union of the ones before it, and the rectangle
\* after the run, if any, does not satisfy it with the union of the run.
IsMaximalRun(s, a, b, T) ==
    /\ \A k \in (a + 1)..b : should_merge_tables(RunUnion(s, a, k - 1), s[k], T)
    /\ b < Len(s) => ~should_merge_tables(RunUnion(s, a, b), s[b + 1], T)

\* out lists the unions of the maximal runs of s that end at the indices
\* of ends, in input order.
IsRunUnions(out, s, ends, T) ==
    /\ Len(out) = Cardinality(ends)
    /\ Len(s) > 0 => Len(s) \in ends
    /\ \A e \in ends :
          LET before == {d \in ends : d < e}
              start == IF before = {} THEN 1
                       ELSE 1 + (CHOOSE d \in before : \A c \in before : c <= d)
          IN  /\ IsMaximalRun(s, start, e, T)
              /\ out[Cardinality(before) + 1] = RunUnion(s, start, e)

\* The list of the specification's example.
MergeExample == <<IRect(0, 0, 10, 10), IRect(9, 9, 20, 20), IRect(50, 50, 60, 60)>>

\* C11: merge_tables scans its input in order and returns, for each maximal
\* run in which every next rectangle satisfies should_merge with the group
\* accumulated so far, the bounding union of that run, in input order: an
\* empty input gives an empty output, a single rectangle is returned
\* unchanged, and [(0,0,10,10),(9,9,20,20),(50,50,60,60)] with tolerance 20
\* gives two rectangles, the first being (0,0,20,20).
C11_MaximalRunUnions ==
    mpc = "merged" =>
        /\ \E ends \in SUBSET (1..Len(table_bboxes)) :
              IsRunUnions(merged, table_bboxes, ends, tolerance)
        /\ table_bboxes = <<>> => merged = <<>>
        /\ Len(table_bboxes) = 1 => merged = table_bboxes
        /\ (table_bboxes = MergeExample /\ tolerance = 20) =>
              /\ Len(merged) = 2
              /\ merged[1] = IRect(0, 0, 20, 20)

\* merge_tables has returned for the example with tolerance 20.
C11_Witness ==
    /\ mpc = "merged"
    /\ table_bboxes = MergeExample
    /\ tolerance = 20
    /\ merged = <<IRect(0, 0, 20, 20), IRect(50, 50, 60, 60)>>

\* The distance between the nearest edges of a and b along the x axis (0
\* when they overlap or touch along it), and along the y axis.
HorizontalSeparation(a, b) == Max(0, Max(b.x0 - a.x1, a.x0 - b.x1))

VerticalSeparation(a, b) == Max(0, Max(b.y0 - a.y1, a.y0 - b.y1))

\* merge_tables has returned for a list of two rectangles.
PairMerged == mpc = "merged" /\ Len(table_bboxes) = 2

\* Two tables of the same width, one 20 below the other.
StackedApart == <<IRect(0, 0, 10, 10), IRect(0, 30, 10, 40)>>

\* C16 as stated: should_merge_tables never holds for two distant
\* rectangles: if the horizontal separation or the vertical separation
\* between the two rectangles (the distance between their nearest edges
\* along that axis) is at least the tolerance T, they are not merged, so
\* merge_tables never unions unrelated, distant consecutive tables.
C16_AsStated ==
    (PairMerged
        /\ (HorizontalSeparation(table_bboxes[1], table_bboxes[2]) >= tolerance
            \/ VerticalSeparation(table_bboxes[1], table_bboxes[2]) >= tolerance)) =>
        /\ ~should_merge_tables(table_bboxes[1], table_bboxes[2], tolerance)
        /\ merged = table_bboxes

\* C16 amended: should_merge_tables never holds for two rectangles that
\* are distant along both axes: if the horizontal separation and the
\* vertical separation between the two rectangles are both at least the
\* tolerance T, they are not merged.  Separation along one axis alone does
\* not keep them apart: (0,0,10,10) and (0,30,10,40), 20 apart vertically,
\* are merged into (0,0,10,40) with T = 20, their left and right edges
\* being aligned and their width below T.
C16_DistantOnBothAxes ==
    /\ (PairMerged
          /\ HorizontalSeparation(table_bboxes[1], table_bboxes[2]) >= tolerance
          /\ VerticalSeparation(table_bboxes[1], table_bboxes[2]) >= tolerance) =>
          /\ ~should_merge_tables(table_bboxes[1], table_bboxes[2], tolerance)
          /\ merged = table_bboxes
    /\ (PairMerged /\ table_bboxes = StackedApart /\ tolerance = 20) =>
          merged = <<IRect(0, 0, 10, 40)>>

\* merge_tables has kept apart two rectangles 40 apart along both axes,
\* with tolerance 20.
C16_Witness ==
    /\ PairMerged
    /\ table_bboxes = <<IRect(0, 0, 10, 10), IRect(50, 50, 60, 60)>>
    /\ tolerance = 20
    /\ merged = table_bboxes


-----------------------------------------------------------------------------
(***************************************************************************)
(* The reading-order composer: split_bbox_by_table, get_ordered_content.   *)
(***************************************************************************)

\* The clips split_bbox_by_table would hand to page.get_text.
PotentialAbove(text_bbox, table_bbox) ==
    IRect(text_bbox.x0, text_bbox.y0, text_bbox.x1, table_bbox.y0)

PotentialBelow(text_bbox, table_bbox) ==
    IRect(text_bbox.x0, table_bbox.y1, text_bbox.x1, text_bbox.y1)

\* The below slice cut at the table's top instead of its bottom.
SplitBelowFromTableTop(text_bbox, table_bbox, text_above, text_below) ==
    [above |-> IF text_bbox.y0 < table_bbox.y0 /\ text_above
               THEN PotentialAbove(text_bbox, table_bbox) ELSE None,
     below |-> IF text_bbox.y1 > table_bbox.y1 /\ text_below
               THEN IRect(text_bbox.x0, table_bbox.y0, text_bbox.x1, text_bbox.y1)
               ELSE None]

\* split_bbox_by_table(text_bbox, table_bbox, page); text_above and
\* text_below say whether page.get_text(clip).strip() is non-empty for the
\* slice above and the slice below (each is read only if that slice has a
\* positive height).
split_bbox_by_table(text_bbox, table_bbox, text_above, text_below) ==
    [above |-> IF text_bbox.y0 < table_bbox.y0 /\ text_above
               THEN PotentialAbove(text_bbox, table_bbox) ELSE None,
     below |-> IF text_bbox.y1 > table_bbox.y1 /\ text_below
               THEN PotentialBelow(text_bbox, table_bbox) ELSE None]

\* The get_text calls split_bbox_by_table makes, with their answers.
SplitQueries(text_bbox, table_bbox, text_above, text_below) ==
    (IF text_bbox.y0 < table_bbox.y0
     THEN {[clip |-> PotentialAbove(text_bbox, table_bbox), text |-> text_above]}
     ELSE {})
    \cup
    (IF text_bbox.y1 > table_bbox.y1
     THEN {[clip |-> PotentialBelow(text_bbox, table_bbox), text |-> text_below]}
     ELSE {})

\* Rectangle inner lies inside rectangle outer.
Inside(inner, outer) ==
    /\ outer.x0 <= inner.x0 /\ inner.x1 <= outer.x1
    /\ outer.y0 <= inner.y0 /\ inner.y1 <= outer.y1

\* page.get_text("text", clip=...) returns the page's text inside the
\* clip: the same answer for the same clip, and text inside a clip is text
\* inside every clip around it.  The answers to a split must agree with
\* the answers the page has given; a slice that is not read has no answer.
OracleAnswers(text_bbox, table_bbox, text_above, text_below) ==
    /\ text_bbox.y0 >= table_bbox.y0 => ~text_above
    /\ text_bbox.y1 <= table_bbox.y1 => ~text_below
    /\ \A q \in SplitQueries(text_bbox, table_bbox, text_above, text_below) :
          \A e \in oracle_log :
              /\ (Inside(e.clip, q.clip) /\ e.text) => q.text
              /\ (Inside(q.clip, e.clip) /\ q.text) => e.text

\* (x0, y0, x1, y1) of a table
TableKey(t) == <<t.x0, t.y0, t.x1, t.y1>>

\* The table appended whether or not its key is in processed_tables.
EmitTableAlways(content, processed, table_bbox) ==
    [content |-> Append(content, <<table_bbox, "table">>),
     processed |-> processed \cup {TableKey(table_bbox)}]

\* if table_key not in processed_tables: append the table, add the key
EmitTable(content, processed, table_bbox) ==
    IF TableKey(table_bbox) \notin processed
    THEN [content |-> Append(content, <<table_bbox, "table">>),
          processed |-> processed \cup {TableKey(table_bbox)}]
    ELSE [content |-> content, processed |-> processed]

\* if bbox: ordered_content.append((bbox, "text")).  A slice is an IRect
\* with y0 < y1, so it is true whenever it is not None.
EmitText(content, bbox) ==
    IF bbox # None THEN Append(content, <<bbox, "text">>) ELSE content

\* The merged tables with (text_bbox & table_bbox) not empty, in order.
IntersectingTables(text_bbox, tables) ==
    SelectSeq(tables, LAMBDA t : ~IsEmpty(Intersect(text_bbox, t)))

\* The intersecting tables left in the order of merged_tables.
SortByTopUnsorted(tables) == tables

\* intersecting_tables.sort(key=lambda x: x.y0)
SortByTop(tables) ==
    LET keyed == [k \in 1..Len(tables) |-> <<tables[k].y0, tables[k]>>]
        sorted == StableSort(keyed)
    IN  [k \in 1..Len(sorted) |-> sorted[k][2]]

\* The column rectangles of a page 4 wide: a left and a right column, a
\* column over the full width, a short left column, and the column of the
\* specification's example, spanning y = [0,100].
ColumnRects ==
    { IRect(0, 0, 2, 6), IRect(2, 0, 4, 6), IRect(0, 0, 4, 6), IRect(0, 1, 2, 5),
      IRect(0, 0, 4, 100) }

\* What column_boxes returns for the page: one column, or two different
\* ones in any order (never an empty list; clean_nblocks drops a rectangle
\* equal to the one before it).
ColumnLayouts ==
    {<<a>> : a \in ColumnRects}
    \cup {layout \in {<<a, b>> : a \in ColumnRects, b \in ColumnRects} :
              layout[1] # layout[2]}

\* The detected tables: one across both columns, its left and right
\* fragments, one lower in the left column, one overlapping the first
\* vertically, one at the top of the left column, and the table of the
\* specification's example, at y = [40,60].
RawTableRects ==
    { IRect(0, 2, 4, 3), IRect(0, 2, 2, 3), IRect(2, 2, 4, 3),
      IRect(0, 4, 2, 5), IRect(1, 2, 3, 4), IRect(0, 0, 2, 1),
      IRect(0, 40, 4, 60) }

\* The tolerance of the parser composing the page: fragments that touch
\* and share their edges merge.
ContentTolerances == {1}

ContentInit ==
    /\ max_processors = 1
    /\ tolerance \in ContentTolerances
    /\ text_bboxes \in ColumnLayouts
    /\ table_bboxes \in SeqsUpTo(RawTableRects, MaxRawTables)
    /\ mpc = "idle"
    /\ merged = <<>>
    /\ remerged = <<>>
    /\ permuted = <<>>
    /\ merged_permuted = <<>>
    /\ merged_tables = <<>>
    /\ gpc = "start"
    /\ column_index = 1
    /\ intersecting_tables = <<>>
    /\ table_index = 1
    /\ current_bbox = None
    /\ ordered_content = <<>>
    /\ processed_tables = {}
    /\ column_start = 0
    /\ oracle_log = {}
    /\ ParseIdle
    /\ ColumnIdle

\* text_bboxes = self.column_boxes(page); table_bboxes from
\* page.find_tables(); merged_tables = self.merge_tables(table_bboxes);
\* ordered_content = []; processed_tables = set()
ContentStart ==
    /\ gpc = "start"
    /\ merged_tables' = merge_tables(table_bboxes, tolerance)
    /\ ordered_content' = <<>>
    /\ processed_tables' = {}
    /\ column_index' = 1
    /\ gpc' = "column"
    /\ UNCHANGED <<text_bboxes, intersecting_tables, table_index, current_bbox,
                   column_start, oracle_log>>
    /\ UNCHANGED <<initVars, parseVars, mergeVars, columnVars>>

\* A column no merged table intersects: emitted whole.
ColumnWhole ==
    /\ gpc = "column"
    /\ column_index <= Len(text_bboxes)
    /\ LET text_bbox == text_bboxes[column_index]
       IN  /\ IntersectingTables(text_bbox, merged_tables) = <<>>
           /\ ordered_content' = Append(ordered_content, <<text_bbox, "text">>)
    /\ intersecting_tables' = <<>>
    /\ column_start' = Len(ordered_content)
    /\ column_index' = column_index + 1
    /\ UNCHANGED <<text_bboxes, merged_tables, gpc, table_index, current_bbox,
                   processed_tables, oracle_log>>
    /\ UNCHANGED <<initVars, parseVars, mergeVars, columnVars>>

\* A column some merged table intersects: the tables sorted by y0, the
\* column split by the first of them, the slice above and the table
\* emitted.
ColumnFirstTable ==
    /\ gpc = "column"
    /\ column_index <= Len(text_bboxes)
    /\ LET text_bbox == text_bboxes[column_index]
           tables == SortByTop(IntersectingTables(text_bbox, merged_tables))
       IN  /\ tables # <<>>
           /\ \E text_above, text_below \in BOOLEAN :
                 /\ OracleAnswers(text_bbox, tables[1], text_above, text_below)
                 /\ LET split == split_bbox_by_table(text_bbox, tables[1],
                                                     text_above, text_below)
                        emitted == EmitTable(EmitText(ordered_content, split.above),
                                             processed_tables, tables[1])
                    IN  /\ ordered_content' = emitted.content
                        /\ processed_tables' = emitted.processed
                        /\ current_bbox' = split.below
                 /\ oracle_log' = oracle_log \cup
                       SplitQueries(text_bbox, tables[1], text_above, text_below)
           /\ intersecting_tables' = tables
    /\ table_index' = 2
    /\ column_start' = Len(ordered_content)
    /\ gpc' = "tables"
    /\ UNCHANGED <<text_bboxes, merged_tables, column_index>>
    /\ UNCHANGED <<initVars, parseVars, mergeVars, columnVars>>

\* for table_bbox in intersecting_tables[1:], with a working slice: it is
\* split by the table, the slice above and the table emitted.
NextTableSplit ==
    /\ gpc = "tables"
    /\ table_index <= Len(intersecting_tables)
    /\ current_bbox # None
    /\ LET table_bbox == intersecting_tables[table_index]
       IN  \E text_above, text_below \in BOOLEAN :
              /\ OracleAnswers(current_bbox, table_bbox, text_above, text_below)
              /\ LET split == split_bbox_by_table(current_bbox, table_bbox,
                                                  text_above, text_below)
                     emitted == EmitTable(EmitText(ordered_content, split.above),
                                          processed_tables, table_bbox)
                 IN  /\ ordered_content' = emitted.content
                     /\ processed_tables' = emitted.processed
                     /\ current_bbox' = split.below
              /\ oracle_log' = oracle_log \cup
                    SplitQueries(current_bbox, table_bbox, text_above, text_below)
    /\ table_index' = table_index + 1
    /\ UNCHANGED <<text_bboxes, merged_tables, gpc, column_index,
                   intersecting_tables, column_start>>
    /\ UNCHANGED <<initVars, parseVars, mergeVars, columnVars>>

\* for table_bbox in intersecting_tables[1:], without a working slice
\* (current_bbox is None): the body is skipped.
NextTableSkip ==
    /\ gpc = "tables"
    /\ table_index <= Len(intersecting_tables)
    /\ current_bbox = None
    /\ table_index' = table_index + 1
    /\ UNCHANGED <<text_bboxes, merged_tables, gpc, column_index,
                   intersecting_tables, current_bbox, ordered_content,
                   processed_tables, column_start, oracle_log>>
    /\ UNCHANGED <<initVars, parseVars, mergeVars, columnVars>>

\* After the tables of the column: the remaining slice, if any, emitted.
ColumnEnd ==
    /\ gpc = "tables"
    /\ table_index > Len(intersecting_tables)
    /\ ordered_content' = EmitText(ordered_content, current_bbox)
    /\ column_index' = column_index + 1
    /\ gpc' = "column"
    /\ UNCHANGED <<text_bboxes, merged_tables, intersecting_tables,
                   table_index, current_bbox, processed_tables, column_start,
                   oracle_log>>
    /\ UNCHANGED <<initVars, parseVars, mergeVars, columnVars>>

\* return ordered_content
ContentReturn ==
    /\ gpc = "column"
    /\ column_index > Len(text_bboxes)
    /\ gpc' = "returned"
    /\ UNCHANGED <<text_bboxes, merged_tables, column_index,
                   intersecting_tables, table_index, current_bbox,
                   ordered_content, processed_tables, column_start, oracle_log>>
    /\ UNCHANGED <<initVars, parseVars, mergeVars, columnVars>>

ContentNext ==
    \/ ContentStart
    \/ ColumnWhole
    \/ ColumnFirstTable
    \/ NextTableSplit
    \/ NextTableSkip
    \/ ColumnEnd
    \/ ContentReturn

ContentSpec == ContentInit /\ [][ContentNext]_vars


-----------------------------------------------------------------------------
(***************************************************************************)
(* Claims about the reading-order composer.                                *)
(***************************************************************************)

\* The loop has finished a column: text_bboxes[column_index - 1].
ColumnDone == gpc \in {"column", "returned"} /\ column_index >= 2

LastColumn == text_bboxes[column_index - 1]

\* The regions emitted for the column just finished.
LastColumnRegions == SubSeq(ordered_content, column_start + 1, Len(ordered_content))

\* The table was emitted for an earlier column of the page.
EmittedBefore(table_bbox) ==
    \E k \in 1..column_start : ordered_content[k] = <<table_bbox, "table">>

\* The oracle returned non-empty trimmed text for the clip.
OracleText(rect) == \E e \in oracle_log : e.clip = rect /\ e.text

\* The Text slice of the column above the table, when it has a positive
\* height and text.
SliceAbove(col, t) ==
    IF col.y0 < t.y0 /\ OracleText(IRect(col.x0, col.y0, col.x1, t.y0))
    THEN << <<IRect(col.x0, col.y0, col.x1, t.y0), "text">> >>
    ELSE <<>>

\* The Text slice of the column below the table, likewise.
SliceBelow(col, t) ==
    IF col.y1 > t.y1 /\ OracleText(IRect(col.x0, t.y1, col.x1, col.y1))
    THEN << <<IRect(col.x0, t.y1, col.x1, col.y1), "text">> >>
    ELSE <<>>

\* C6 as stated: a column rectangle intersected by exactly one merged
\* table yields, in this order, the Text slice from the column top to the
\* table top, the Table region, and the Text slice from the table bottom
\* to the column bottom; a slice is emitted if and only if it has positive
\* height on that side and the oracle returns non-empty trimmed text.
C6_AsStated ==
    (ColumnDone /\ Len(IntersectingTables(LastColumn, merged_tables)) = 1) =>
        LET t == IntersectingTables(LastColumn, merged_tables)[1]
        IN  LastColumnRegions =
                SliceAbove(LastColumn, t) \o << <<t, "table">> >> \o SliceBelow(LastColumn, t)

\* C6 amended: a column rectangle intersected by exactly one merged table
\* yields, in this order, the Text slice from the column top to the table
\* top, the Table region unless an identical table rectangle was already
\* emitted for an earlier column of the page, and the Text slice from the
\* table bottom to the column bottom (column y=[0,100], table y=[40,60]:
\* Text[0,40], Table[40,60], Text[60,100]); a slice is emitted if and only
\* if it has positive height on that side and the oracle returns non-empty
\* trimmed text for it.
C6_OneTableSplit ==
    (ColumnDone /\ Len(IntersectingTables(LastColumn, merged_tables)) = 1) =>
        LET t == IntersectingTables(LastColumn, merged_tables)[1]
            table == IF EmittedBefore(t) THEN <<>> ELSE << <<t, "table">> >>
        IN  /\ LastColumnRegions =
                  SliceAbove(LastColumn, t) \o table \o SliceBelow(LastColumn, t)
            /\ (LastColumn = IRect(0, 0, 4, 100) /\ t = IRect(0, 40, 4, 60)
                  /\ column_index = 2
                  /\ OracleText(IRect(0, 0, 4, 40)) /\ OracleText(IRect(0, 60, 4, 100))) =>
                  LastColumnRegions = << <<IRect(0, 0, 4, 40), "text">>,
                                         <<IRect(0, 40, 4, 60), "table">>,
                                         <<IRect(0, 60, 4, 100), "text">> >>

\* The column of the example has been composed: three regions.
C6_Witness ==
    /\ ColumnDone
    /\ LastColumn = IRect(0, 0, 4, 100)
    /\ IntersectingTables(LastColumn, merged_tables) = <<IRect(0, 40, 4, 60)>>
    /\ Len(LastColumnRegions) = 3

\* C7: for any column rectangles and merged tables of one page, the page's
\* ordered content never contains two Table regions with an identical
\* bounding box, even when several column rectangles each intersect the
\* same merged table rectangle.
C7_NoDuplicateTable ==
    \A i, j \in 1..Len(ordered_content) :
        (i < j /\ ordered_content[i][2] = "table" /\ ordered_content[j][2] = "table")
            => ordered_content[i][1] # ordered_content[j][1]

\* The page has been composed, two columns intersect the same merged
\* table, and the table is in the content.
C7_Witness ==
    /\ gpc = "returned"
    /\ Len(text_bboxes) = 2
    /\ text_bboxes[1] # text_bboxes[2]
    /\ \E k \in 1..Len(merged_tables) :
          /\ ~IsEmpty(Intersect(text_bboxes[1], merged_tables[k]))
          /\ ~IsEmpty(Intersect(text_bboxes[2], merged_tables[k]))
          /\ \E i \in 1..Len(ordered_content) :
                ordered_content[i] = <<merged_tables[k], "table">>


\* The places of the Table region of table_bbox in the page's content.
TablePlaces(table_bbox) ==
    {k \in 1..Len(ordered_content) : ordered_content[k] = <<table_bbox, "table">>}

\* C15: for every column rectangle, every merged table rectangle that
\* intersects it is processed and appears as a Table region in the page's
\* ordered content (exactly once per page), whatever the extraction oracle
\* returns for the text slices above and below the earlier tables of that
\* column.
C15_AsStated ==
    gpc = "returned" =>
        \A c \in 1..Len(text_bboxes) : \A t \in 1..Len(merged_tables) :
            ~IsEmpty(Intersect(text_bboxes[c], merged_tables[t])) =>
                Cardinality(TablePlaces(merged_tables[t])) = 1


\* The merged tables that intersect the column just finished.
LastColumnTables == IntersectingTables(LastColumn, merged_tables)

\* The tables of s are pairwise vertically disjoint.
Stacked(s) ==
    \A i, j \in 1..Len(s) :
        i # j => (s[i].y1 <= s[j].y0 \/ s[j].y1 <= s[i].y0)

\* C17: when several merged tables stack within one column rectangle's
\* vertical extent (pairwise vertically disjoint tables), the regions
\* emitted for that column are in top-to-bottom order: each emitted
\* region's top coordinate is greater than or equal to the bottom
\* coordinate of the region emitted just before it for that column, with
\* each table placed between the text slice above it and the text slice
\* below it.
C17_StackedTablesInOrder ==
    (ColumnDone /\ Len(LastColumnTables) >= 2 /\ Stacked(LastColumnTables)) =>
        LET regions == LastColumnRegions
        IN  /\ \A k \in 1..(Len(regions) - 1) :
                  regions[k + 1][1].y0 >= regions[k][1].y1
            /\ \A k, m \in 1..Len(regions) :
                  (regions[k][2] = "table" /\ regions[m][2] = "text") =>
                      /\ regions[m][1].x0 = LastColumn.x0
                      /\ regions[m][1].x1 = LastColumn.x1
                      /\ regions[m][1].y1 = regions[k][1].y0 => m = k - 1
                      /\ regions[m][1].y0 = regions[k][1].y1 => m = k + 1
                      /\ m < k => regions[m][1].y1 <= regions[k][1].y0
                      /\ m > k => regions[m][1].y0 >= regions[k][1].y1

\* A column with two stacked tables has been composed into five regions:
\* text, table, text, table, text.
C17_Witness ==
    /\ ColumnDone
    /\ Len(LastColumnTables) = 2
    /\ Stacked(LastColumnTables)
    /\ Len(LastColumnRegions) = 5
    /\ LastColumnRegions[2][2] = "table"
    /\ LastColumnRegions[4][2] = "table"


-----------------------------------------------------------------------------
(***************************************************************************)
(* The column detector: column_boxes and its nested functions.             *)
(* Coordinates are integers, so fitz.IRect(...) of a bbox keeps them.      *)
(***************************************************************************)

\* bb in bbox (IRect.__contains__ of a rectangle): bb lies within bbox
Contains(bbox, bb) ==
    /\ bbox.x0 <= bb.x0 /\ bb.x0 <= bb.x1 /\ bb.x1 <= bbox.x1
    /\ bbox.y0 <= bb.y0 /\ bb.y0 <= bb.y1 /\ bb.y1 <= bbox.y1

\* fitz.EMPTY_IRECT()
EMPTY_IRECT == IRect(2147483520, 2147483520, -2147483647 - 1, -2147483647 - 1)

\* a | r on IRects (include_rect): an empty r leaves a alone, an empty a
\* becomes r, otherwise the bounding rectangle of both.
IncludeRect(a, r) ==
    IF IsEmpty(r) THEN a
    ELSE IF IsEmpty(a) THEN r
    ELSE IRect(Min(a.x0, r.x0), Min(a.y0, r.y0), Max(a.x1, r.x1), Max(a.y1, r.y1))

\* in_bbox(bb, bboxes): 1 + the index of the first rectangle bb lies in,
\* 0 when there is none
in_bbox(bb, bboxlist) ==
    LET hits == {i \in 1..Len(bboxlist) : Contains(bboxlist[i], bb)}
    IN  IF hits = {} THEN 0 ELSE CHOOSE i \in hits : \A h \in hits : i <= h

\* intersects_bboxes(bb, bboxes)
intersects_bboxes(bb, bboxlist) ==
    \E k \in 1..Len(bboxlist) : ~IsEmpty(Intersect(bb, bboxlist[k]))

\* The test that looks at the vertical-text rectangles only.
CanExtendVertOnly(temp, bb, bboxlist, vert) ==
    ~intersects_bboxes(temp, vert)

\* can_extend(temp, bb, bboxlist), vert being the closure's vert_bboxes:
\* every b of the list passes when temp meets no vertical-text rectangle
\* and b is None, equals bb, or does not intersect temp.
can_extend(temp, bb, bboxlist, vert) ==
    \A k \in 1..Len(bboxlist) :
        /\ ~intersects_bboxes(temp, vert)
        /\ \/ bboxlist[k] = None
           \/ bboxlist[k] = bb
           \/ IsEmpty(Intersect(temp, bboxlist[k]))

\* Tuples compared as Python compares them: by the first difference.
RECURSIVE LexLeq(_, _)
LexLeq(k1, k2) ==
    IF k1 = <<>> THEN TRUE
    ELSE IF Head(k1) # Head(k2) THEN Head(k1) < Head(k2)
    ELSE LexLeq(Tail(k1), Tail(k2))

\* list.sort on (key, value) pairs whose keys are tuples: stable.
RECURSIVE InsertByTuple(_, _)
InsertByTuple(sorted, x) ==
    IF sorted = <<>> THEN <<x>>
    ELSE IF LexLeq(sorted[Len(sorted)][1], x[1]) THEN Append(sorted, x)
    ELSE Append(InsertByTuple(SubSeq(sorted, 1, Len(sorted) - 1), x),
                sorted[Len(sorted)])

RECURSIVE SortByTuple(_)
SortByTuple(s) ==
    IF s = <<>> THEN <<>>
    ELSE InsertByTuple(SortByTuple(SubSeq(s, 1, Len(s) - 1)), s[Len(s)])

\* path_bboxes.sort(key=lambda b: (b.y0, b.x0))
SortPaths(rects) ==
    LET sorted == SortByTuple([k \in 1..Len(rects) |->
                                  << <<rects[k].y0, rects[k].x0>>, rects[k] >>])
    IN  [k \in 1..Len(sorted) |-> sorted[k][2]]

\* bboxes.sort(key=lambda k: (in_bbox(k, path_bboxes), k.y0, k.x0))
SortCandidates(rects, paths) ==
    LET sorted == SortByTuple([k \in 1..Len(rects) |->
                     << <<in_bbox(rects[k], paths), rects[k].y0, rects[k].x0>>,
                        rects[k] >>])
    IN  [k \in 1..Len(sorted) |-> sorted[k][2]]

\* A line of a text block: its writing direction ("h" for (1, 0), "v" for
\* any other, "missing" when the line has no "dir"), its bbox (None when
\* the line has no "bbox") and the length of its joined, stripped span
\* texts.
Line(dir, bbox, text_len) == [dir |-> dir, bbox |-> bbox, text_len |-> text_len]

\* A text block: its bbox (None when the block has no "bbox") and its
\* lines.
Block(bbox, lines) == [bbox |-> bbox, lines |-> lines]

\* The sentinel test with the threshold one thousand below 2^31 and
\* inclusive.
HasInvalidCoordsInclusive(b) ==
    LET bbox_coords == IF b.bbox = None THEN <<0, 0, 0, 0>>
                       ELSE <<b.bbox.x0, b.bbox.y0, b.bbox.x1, b.bbox.y1>>
    IN  \/ \E k \in 1..4 : bbox_coords[k] >= 2147482648
        \/ \E k \in 1..4 : bbox_coords[k] <= -2147482648

\* any(coord > 2147483000 ...) or any(coord < -2147483000 ...) over
\* b.get("bbox", (0, 0, 0, 0))
HasInvalidCoords(b) ==
    LET bbox_coords == IF b.bbox = None THEN <<0, 0, 0, 0>>
                       ELSE <<b.bbox.x0, b.bbox.y0, b.bbox.x1, b.bbox.y1>>
    IN  \/ \E k \in 1..4 : bbox_coords[k] > 2147483000
        \/ \E k \in 1..4 : bbox_coords[k] < -2147483000

\* The tight rectangle over every line with a bbox, whatever its text.
RECURSIVE TightRectAllLines(_, _)
TightRectAllLines(lines, srect) ==
    IF lines = <<>> THEN srect
    ELSE LET line == Head(lines)
         IN  IF line.bbox = None THEN TightRectAllLines(Tail(lines), srect)
             ELSE TightRectAllLines(Tail(lines), IncludeRect(srect, line.bbox))

\* The loop over b["lines"]: srect |= lbbox for every line that has a bbox
\* and more than one character.
RECURSIVE TightRect(_, _)
TightRect(lines, srect) ==
    IF lines = <<>> THEN srect
    ELSE LET line == Head(lines)
         IN  IF line.bbox = None THEN TightRect(Tail(lines), srect)
             ELSE IF line.text_len > 1
             THEN TightRect(Tail(lines), IncludeRect(srect, line.bbox))
             ELSE TightRect(Tail(lines), srect)

\* "for b in blocks" of column_boxes from blocks[k] on: the candidates and
\* the vertical-text rectangles, or raised when b["bbox"] is missing.
RECURSIVE BlocksLoop(_, _, _, _, _, _)
BlocksLoop(blocks, k, cands, vert, imgs, skip_image_text) ==
    IF k > Len(blocks) THEN [raised |-> FALSE, bboxes |-> cands, vert |-> vert]
    ELSE LET b == blocks[k]
         IN  IF b.bbox = None
             THEN [raised |-> TRUE, bboxes |-> <<>>, vert |-> vert]
             ELSE IF skip_image_text /\ in_bbox(b.bbox, imgs) # 0
             THEN BlocksLoop(blocks, k + 1, cands, vert, imgs, skip_image_text)
             ELSE IF b.lines = <<>>
             THEN BlocksLoop(blocks, k + 1, cands, vert, imgs, skip_image_text)
             ELSE IF b.lines[1].dir = "missing"
             THEN BlocksLoop(blocks, k + 1, cands, vert, imgs, skip_image_text)
             ELSE IF b.lines[1].dir # "h"
             THEN BlocksLoop(blocks, k + 1, cands, Append(vert, b.bbox), imgs,
                             skip_image_text)
             ELSE LET bbox == TightRect(b.lines, EMPTY_IRECT)
                  IN  BlocksLoop(blocks, k + 1,
                                 IF IsEmpty(bbox) THEN cands ELSE Append(cands, bbox),
                                 vert, imgs, skip_image_text)

\* One iteration of extend_right's loop, for i (1-based), on the list as
\* the iterations before it left it.
ExtendAt(bboxlist, i, width, paths, vert, imgs) ==
    LET bb == bboxlist[i]
        temp == [bb EXCEPT !.x1 = width]
    IN  IF in_bbox(bb, paths) # 0 THEN bboxlist
        ELSE IF in_bbox(bb, imgs) # 0 THEN bboxlist
        ELSE IF intersects_bboxes(temp, paths \o vert \o imgs) THEN bboxlist
        ELSE IF can_extend(temp, bb, bboxlist, vert)
        THEN [bboxlist EXCEPT ![i] = temp]
        ELSE bboxlist

\* The inner loop "for j in range(len(nblocks))" of the greedy merge: the
\* j (1-based) at which it breaks with check true, 0 when it runs out.
FirstMatch(bb, merged_list, paths, vert) ==
    LET hits == {j \in 1..Len(merged_list) :
                    LET nbb == merged_list[j]
                    IN  /\ ~(nbb.x1 < bb.x0 \/ bb.x1 < nbb.x0)
                        /\ in_bbox(nbb, paths) = in_bbox(bb, paths)
                        /\ can_extend(IncludeRect(bb, nbb), nbb, merged_list, vert)}
    IN  IF hits = {} THEN 0 ELSE CHOOSE j \in hits : \A h \in hits : j <= h

\* One iteration of the greedy merge's outer loop, for candidate i
\* (1-based): the inner loop, "if not check: nblocks.append(bb) ...", the
\* second can_extend against the remaining candidates, bboxes[i] = None.
MergeAt(bboxlist, i, merged_list, paths, vert) ==
    LET bb == bboxlist[i]
        found == FirstMatch(bb, merged_list, paths, vert)
        appended == IF found = 0 THEN Append(merged_list, bb) ELSE merged_list
        j == IF found = 0 THEN Len(appended) ELSE found
        temp == IF found = 0 THEN appended[j] ELSE IncludeRect(bb, merged_list[found])
        check == can_extend(temp, bb, bboxlist, vert)
    IN  [nblocks |-> IF ~check THEN Append(appended, bb)
                     ELSE [appended EXCEPT ![j] = temp],
         bboxes |-> [bboxlist EXCEPT ![i] = None]]

\* s without its element at index k (1-based): del s[k - 1]
DeleteAt(s, k) == SubSeq(s, 1, k - 1) \o SubSeq(s, k + 1, Len(s))

\* The first loop of clean_nblocks, from i (0-based) down to 0: nblocks[i]
\* is deleted when it equals nblocks[i - 1], which for i = 0 is the last
\* element.
RECURSIVE DedupeLoop(_, _)
DedupeLoop(list, i) ==
    IF i < 0 THEN list
    ELSE LET bb1 == list[i + 1]
             bb0 == IF i = 0 THEN list[Len(list)] ELSE list[i]
         IN  DedupeLoop(IF bb0 = bb1 THEN DeleteAt(list, i + 1) ELSE list, i - 1)

\* nblocks[i0 : i1 + 1] = sorted(nblocks[i0 : i1 + 1], key=lambda b: b.x0),
\* i0 and i1 0-based
SortSlice(list, i0, i1) ==
    LET slice == SubSeq(list, i0 + 1, i1 + 1)
        sorted == StableSort([k \in 1..Len(slice) |-> <<slice[k].x0, slice[k]>>])
    IN  SubSeq(list, 1, i0) \o [k \in 1..Len(sorted) |-> sorted[k][2]]
        \o SubSeq(list, i1 + 2, Len(list))

\* The second loop of clean_nblocks from i (0-based) on, then the sort of
\* the last band.
RECURSIVE BandLoop(_, _, _, _, _)
BandLoop(list, i, y1, i0, i1) ==
    IF i >= Len(list)
    THEN IF i1 > i0 THEN SortSlice(list, i0, i1) ELSE list
    ELSE LET b1 == list[i + 1]
         IN  IF Abs(b1.y1 - y1) > 10
             THEN BandLoop(IF i1 > i0 THEN SortSlice(list, i0, i1) ELSE list,
                           i + 1, b1.y1, i, i)
             ELSE BandLoop(list, i + 1, y1, i0, i)

\* The bands cut by comparing each bottom edge with the one before it.
CleanNblocksChained(list) ==
    LET RECURSIVE Loop(_, _, _, _)
        Loop(l, i, i0, i1) ==
            IF i >= Len(l)
            THEN IF i1 > i0 THEN SortSlice(l, i0, i1) ELSE l
            ELSE IF Abs(l[i + 1].y1 - l[i].y1) > 10
                 THEN Loop(IF i1 > i0 THEN SortSlice(l, i0, i1) ELSE l, i + 1, i, i)
                 ELSE Loop(l, i + 1, i0, i)
        deduped == IF Len(list) < 2 THEN list ELSE DedupeLoop(list, Len(list) - 1)
    IN  IF Len(list) < 2 THEN [raised |-> FALSE, nblocks |-> list]
        ELSE IF deduped = <<>> THEN [raised |-> TRUE, nblocks |-> <<>>]
        ELSE [raised |-> FALSE, nblocks |-> Loop(deduped, 1, 0, -1)]

\* clean_nblocks(nblocks): raised when the first loop emptied the list and
\* nblocks[0] fails (IndexError).
clean_nblocks(list) ==
    IF Len(list) < 2 THEN [raised |-> FALSE, nblocks |-> list]
    ELSE LET deduped == DedupeLoop(list, Len(list) - 1)
         IN  IF deduped = <<>> THEN [raised |-> TRUE, nblocks |-> <<>>]
             ELSE [raised |-> FALSE,
                   nblocks |-> BandLoop(deduped, 1, deduped[1].y1, 0, -1)]

-----------------------------------------------------------------------------
(***************************************************************************)
(* column_boxes(page), then get_ordered_content and parse on the page,     *)
(* for a single-page document without tables.                              *)
(***************************************************************************)

\* page.rect of the pages column_boxes is run on
PageRect == IRect(0, 0, 6, 40)

\* The text blocks the oracle can return: a block over the full width, a
\* right and a left block below it that overlap vertically, a block of
\* vertical text, a block without lines, a block with a two-character line
\* and a one-character line, a block with a coordinate of 2^31 - 1000, a
\* block with a coordinate of 2^31 - 1 and a line without bbox, a block whose
\* line has no direction, and a block without bbox.
TextBlocks ==
    { Block(IRect(0, 0, 6, 10), <<Line("h", IRect(0, 0, 6, 10), 2)>>),
      Block(IRect(3, 11, 6, 20), <<Line("h", IRect(3, 11, 6, 20), 2)>>),
      Block(IRect(0, 12, 2, 25), <<Line("h", IRect(0, 12, 2, 25), 2)>>),
      Block(IRect(2, 0, 3, 30), <<Line("v", IRect(2, 0, 3, 30), 2)>>),
      Block(IRect(0, 0, 10, 10), <<>>),
      Block(IRect(0, 30, 4, 34), <<Line("h", IRect(0, 30, 4, 32), 2),
                                   Line("h", IRect(0, 33, 1, 34), 1)>>),
      Block(IRect(0, 26, 2147482648, 29),
            <<Line("h", IRect(0, 26, 2147482648, 29), 2)>>),
      Block(IRect(2147483647, 0, 10, 10), <<Line("h", None, 0)>>),
      Block(IRect(40, 40, 50, 50), <<Line("missing", None, 0)>>),
      Block(None, <<Line("h", IRect(0, 0, 6, 10), 2)>>) }

\* A page and a parser configuration: the drawings' rectangles, the image
\* rectangles, the oracle call that raises if any, no_image_text and the
\* header and footer margins.
PageSetup(drawings, images, raises, skip_image_text, header, footer) ==
    [drawings |-> drawings, images |-> images, raises |-> raises,
     no_image_text |-> skip_image_text, header |-> header, footer |-> footer]

\* The setups: a plain page, with margins, with a drawing around the left
\* block, with an image over the right block (text on images dropped or
\* kept), and a page on which get_drawings, get_images or get_text raises.
PageSetups ==
    { PageSetup(<<>>, <<>>, "none", FALSE, 0, 0),
      PageSetup(<<>>, <<>>, "none", FALSE, 1, 2),
      PageSetup(<<IRect(0, 11, 2, 26)>>, <<>>, "none", FALSE, 0, 0),
      PageSetup(<<>>, <<IRect(3, 11, 6, 20)>>, "none", TRUE, 0, 0),
      PageSetup(<<>>, <<IRect(3, 11, 6, 20)>>, "none", FALSE, 0, 0),
      PageSetup(<<>>, <<>>, "drawings", FALSE, 0, 0),
      PageSetup(<<>>, <<>>, "images", FALSE, 0, 0),
      PageSetup(<<>>, <<>>, "text", FALSE, 0, 0) }

ColumnInit ==
    /\ max_processors = 1
    /\ tolerance = 0
    /\ \E setup \in PageSetups, blocks \in SeqsUpTo(TextBlocks, MaxBlocks) :
          /\ page = [rect |-> PageRect, drawings |-> setup.drawings,
                     images |-> setup.images, blocks |-> blocks,
                     raises |-> setup.raises]
          /\ header_margin = setup.header
          /\ footer_margin = setup.footer
          /\ no_image_text = setup.no_image_text
    /\ cpc = "drawings"
    /\ clip = None
    /\ path_bboxes = <<>>
    /\ img_bboxes = <<>>
    /\ vert_bboxes = <<>>
    /\ col_bboxes = <<>>
    /\ nblocks = <<>>
    /\ loop_index = 1
    /\ column_error = FALSE
    /\ column_result = <<>>
    /\ ParseIdle
    /\ MergeIdle
    /\ ContentIdle

\* paths = page.get_drawings(), before the try: an error leaves
\* column_boxes.  Then clip = +page.rect with the margins taken off.
GetDrawings ==
    /\ cpc = "drawings"
    /\ IF page.raises = "drawings"
       THEN /\ cpc' = "raised"
            /\ clip' = clip
       ELSE /\ cpc' = "extract"
            /\ clip' = [page.rect EXCEPT !.y0 = page.rect.y0 + header_margin,
                                         !.y1 = page.rect.y1 - footer_margin]
    /\ UNCHANGED <<page, header_margin, footer_margin, no_image_text,
                   path_bboxes, img_bboxes, vert_bboxes, col_bboxes, nblocks,
                   loop_index, column_error, column_result>>
    /\ UNCHANGED <<initVars, parseVars, mergeVars, contentVars>>

\* What the try block does up to the sort of the candidates: "fallback"
\* is a return [clip] of the try block, "error" one of the except clause.
ExtractOutcome(pg, usable, skip_image_text) ==
    LET paths == SortPaths(pg.drawings)
        Stop(how, imgs, vert) ==
            [how |-> how, paths |-> paths, imgs |-> imgs, vert |-> vert,
             bboxes |-> <<>>]
        loop == BlocksLoop(pg.blocks, 1, <<>>, <<>>, pg.images, skip_image_text)
    IN  IF pg.raises = "images" THEN Stop("error", <<>>, <<>>)
        ELSE IF pg.raises = "text" THEN Stop("error", pg.images, <<>>)
        ELSE IF pg.blocks = <<>> THEN Stop("fallback", pg.images, <<>>)
        ELSE IF \E k \in 1..Len(pg.blocks) : HasInvalidCoords(pg.blocks[k])
        THEN Stop("fallback", pg.images, <<>>)
        ELSE IF loop.raised THEN Stop("error", pg.images, loop.vert)
        ELSE IF loop.bboxes = <<>> THEN Stop("fallback", pg.images, loop.vert)
        ELSE [how |-> "candidates", paths |-> paths, imgs |-> pg.images,
              vert |-> loop.vert, bboxes |-> SortCandidates(loop.bboxes, paths)]

\* The try block from the paths to bboxes.sort(...): the path and image
\* rectangles, the text blocks, their validation, the candidates.
ExtractBlocks ==
    /\ cpc = "extract"
    /\ LET out == ExtractOutcome(page, clip, no_image_text)
       IN  /\ path_bboxes' = out.paths
           /\ img_bboxes' = out.imgs
           /\ vert_bboxes' = out.vert
           /\ col_bboxes' = out.bboxes
           /\ column_error' = (out.how = "error")
           /\ IF out.how = "candidates"
              THEN /\ cpc' = "extend"
                   /\ column_result' = column_result
              ELSE /\ cpc' = "returned"
                   /\ column_result' = <<clip>>
    /\ loop_index' = 1
    /\ UNCHANGED <<page, header_margin, footer_margin, no_image_text, clip,
                   nblocks>>
    /\ UNCHANGED <<initVars, parseVars, mergeVars, contentVars>>

\* extend_right(bboxes, int(page.rect.width), ...): one iteration of its
\* loop.
ExtendStep ==
    /\ cpc = "extend"
    /\ loop_index <= Len(col_bboxes)
    /\ col_bboxes' = ExtendAt(col_bboxes, loop_index,
                              page.rect.x1 - page.rect.x0,
                              path_bboxes, vert_bboxes, img_bboxes)
    /\ loop_index' = loop_index + 1
    /\ UNCHANGED <<page, header_margin, footer_margin, no_image_text, cpc,
                   clip, path_bboxes, img_bboxes, vert_bboxes, nblocks,
                   column_error, column_result>>
    /\ UNCHANGED <<initVars, parseVars, mergeVars, contentVars>>

\* extend_right returns the list (no candidate is None yet);
\* nblocks = [bboxes[0]]; bboxes = bboxes[1:]
ExtendDone ==
    /\ cpc = "extend"
    /\ loop_index > Len(col_bboxes)
    /\ nblocks' = <<col_bboxes[1]>>
    /\ col_bboxes' = Tail(col_bboxes)
    /\ loop_index' = 1
    /\ cpc' = "merge"
    /\ UNCHANGED <<page, header_margin, footer_margin, no_image_text, clip,
                   path_bboxes, img_bboxes, vert_bboxes, column_error,
                   column_result>>
    /\ UNCHANGED <<initVars, parseVars, mergeVars, contentVars>>

\* One iteration of "for i, bb in enumerate(bboxes)", the greedy merge.
MergeStep ==
    /\ cpc = "merge"
    /\ loop_index <= Len(col_bboxes)
    /\ LET out == MergeAt(col_bboxes, loop_index, nblocks, path_bboxes,
                          vert_bboxes)
       IN  /\ nblocks' = out.nblocks
           /\ col_bboxes' = out.bboxes
    /\ loop_index' = loop_index + 1
    /\ UNCHANGED <<page, header_margin, footer_margin, no_image_text, cpc,
                   clip, path_bboxes, img_bboxes, vert_bboxes, column_error,
                   column_result>>
    /\ UNCHANGED <<initVars, parseVars, mergeVars, contentVars>>

\* nblocks = clean_nblocks(nblocks); return nblocks.  An error in
\* clean_nblocks is caught by the except clause: return [clip].
ColumnClean ==
    /\ cpc = "merge"
    /\ loop_index > Len(col_bboxes)
    /\ LET cleaned == clean_nblocks(nblocks)
       IN  IF cleaned.raised
           THEN /\ column_error' = TRUE
                /\ column_result' = <<clip>>
                /\ nblocks' = cleaned.nblocks
           ELSE /\ column_error' = FALSE
                /\ column_result' = cleaned.nblocks
                /\ nblocks' = cleaned.nblocks
    /\ cpc' = "returned"
    /\ UNCHANGED <<page, header_margin, footer_margin, no_image_text, clip,
                   path_bboxes, img_bboxes, vert_bboxes, col_bboxes,
                   loop_index>>
    /\ UNCHANGED <<initVars, parseVars, mergeVars, contentVars>>

\* text_bboxes = self.column_boxes(page) in get_ordered_content, on a page
\* where page.find_tables() finds nothing.
ColumnBoxesReturn ==
    /\ cpc = "returned"
    /\ gpc = "idle"
    /\ text_bboxes' = column_result
    /\ gpc' = "start"
    /\ UNCHANGED <<merged_tables, column_index, intersecting_tables,
                   table_index, current_bbox, ordered_content,
                   processed_tables, column_start, oracle_log>>
    /\ UNCHANGED <<initVars, parseVars, mergeVars, columnVars>>

\* The page is the document's only one: process_page_chunk returns
\* [(0, ordered_content)], parse sorts it and builds the Elements.
SinglePageParse ==
    /\ gpc = "returned"
    /\ pc = "idle"
    /\ results' = SortResults(<< <<0, ordered_content>> >>)
    /\ elements' = ToElements(results')
    /\ num_pages' = 1
    /\ pc' = "returned"
    /\ UNCHANGED <<file, page_segments, num_utilized_processors, futures,
                   completion_order, next_result, chunk_results, error>>
    /\ UNCHANGED <<initVars, mergeVars, contentVars, columnVars>>

ColumnNext ==
    \/ GetDrawings
    \/ ExtractBlocks
    \/ ExtendStep
    \/ ExtendDone
    \/ MergeStep
    \/ ColumnClean
    \/ ColumnBoxesReturn
    \/ ContentStart
    \/ ColumnWhole
    \/ ContentReturn
    \/ SinglePageParse

ColumnSpec == ColumnInit /\ [][ColumnNext]_vars


-----------------------------------------------------------------------------
(***************************************************************************)
(* Claims about the column detector.                                       *)
(***************************************************************************)

\* The usable area: the page rectangle reduced by the header and footer
\* margins.
UsableRect ==
    IRect(page.rect.x0, page.rect.y0 + header_margin,
          page.rect.x1, page.rect.y1 - footer_margin)

\* The coordinates of the bboxes of the page's text blocks.
BlockCoords ==
    UNION {{b.bbox.x0, b.bbox.y0, b.bbox.x1, b.bbox.y1} :
              b \in {page.blocks[k] : k \in {j \in 1..Len(page.blocks) :
                                               page.blocks[j].bbox # None}}}

\* The oracle has returned the page's text blocks and column_boxes has
\* returned.
BlocksReturned == cpc = "returned" /\ page.raises = "none"

\* The block with a coordinate of 2^31 - 1000 and nothing else on the page.
SentinelBlockOnly ==
    /\ page.blocks = <<Block(IRect(0, 26, 2147482648, 29),
                            <<Line("h", IRect(0, 26, 2147482648, 29), 2)>>)>>
    /\ page.drawings = <<>>
    /\ page.images = <<>>

\* C12 as stated: column_boxes returns exactly one rectangle, the usable
\* area (page rectangle reduced by the header and footer margins), when the
\* oracle returns zero text blocks, or when any block bbox contains a
\* coordinate whose magnitude is >= 2^31 - 1000 (2147482648).
C12_AsStated ==
    (BlocksReturned
        /\ (page.blocks = <<>>
            \/ \E c \in BlockCoords : c >= 2147482648 \/ c <= -2147482648)) =>
        column_result = <<UsableRect>>

\* C12 amended: column_boxes returns exactly one rectangle, the usable area
\* (page rectangle reduced by the header and footer margins), when the
\* oracle returns zero text blocks, or when any block bbox contains a
\* coordinate whose magnitude is > 2147483000; a block whose largest
\* coordinate is 2^31 - 1000 is processed like any other block (alone on a
\* page, it gives its own rectangle with the right edge at the page width).
C12_FallbackOnSentinel ==
    /\ (BlocksReturned
          /\ (page.blocks = <<>>
              \/ \E c \in BlockCoords : c > 2147483000 \/ c < -2147483000)) =>
          /\ column_result = <<UsableRect>>
          /\ ~column_error
    /\ (BlocksReturned /\ SentinelBlockOnly) =>
          column_result = <<IRect(0, 26, page.rect.x1, 29)>>

\* column_boxes has fallen back on a page with margins whose second block
\* has a coordinate of 2^31 - 1 and whose first block is a valid one.
C12_Witness ==
    /\ BlocksReturned
    /\ Len(page.blocks) = 2
    /\ page.blocks[1].bbox = IRect(0, 0, 6, 10)
    /\ page.blocks[2].bbox = IRect(2147483647, 0, 10, 10)
    /\ header_margin = 1
    /\ column_result = <<IRect(0, 1, 6, 38)>>

\* An oracle call or an internal step of column_boxes has raised.
InternalError == column_error \/ page.raises # "none"

\* C13: column_boxes never fails the page: for any oracle behaviour,
\* including an error raised by any oracle call or internal step it
\* performs (drawings, images, text blocks, extension, merge, post-pass), it
\* does not raise and returns a non-empty list, which is exactly [usable
\* rectangle] whenever an internal error occurred.
C13_AsStated ==
    /\ cpc # "raised"
    /\ cpc = "returned" =>
          /\ column_result # <<>>
          /\ InternalError => column_result = <<UsableRect>>

\* page.get_text("text", clip=rect).strip() by what it holds: the lines of
\* the page's blocks that have text and reach into rect, in block and line
\* order, each known by its place and its length.
PageText(rect) ==
    LET RECURSIVE LinesOf(_, _)
        LinesOf(b, l) ==
            IF b > Len(page.blocks) THEN <<>>
            ELSE IF l > Len(page.blocks[b].lines) THEN LinesOf(b + 1, 1)
            ELSE LET line == page.blocks[b].lines[l]
                 IN  IF line.bbox # None /\ line.text_len > 0
                        /\ ~IsEmpty(Intersect(line.bbox, rect))
                     THEN <<[bbox |-> line.bbox, text_len |-> line.text_len]>>
                          \o LinesOf(b, l + 1)
                     ELSE LinesOf(b, l + 1)
    IN  LinesOf(1, 1)

\* The page's only block.
OnlyBlock == page.blocks[1]

\* The oracle has returned exactly one text block (and the drawings and
\* images before it) and parse has returned.
OneBlockParsed ==
    /\ pc = "returned"
    /\ page.raises = "none"
    /\ Len(page.blocks) = 1

\* The lines of the only block that count for its rectangle.
CountedLines ==
    {OnlyBlock.lines[l].bbox : l \in {k \in 1..Len(OnlyBlock.lines) :
        /\ OnlyBlock.lines[k].bbox # None
        /\ OnlyBlock.lines[k].text_len > 1
        /\ ~IsEmpty(OnlyBlock.lines[k].bbox)}}

\* The only block gives no candidate rectangle.
NoCandidate ==
    \/ OnlyBlock.bbox = None
    \/ \E c \in BlockCoords : c > 2147483000 \/ c < -2147483000
    \/ no_image_text /\ \E k \in 1..Len(page.images) :
                            Contains(page.images[k], OnlyBlock.bbox)
    \/ OnlyBlock.lines = <<>>
    \/ OnlyBlock.lines[1].dir # "h"
    \/ CountedLines = {}

\* The rectangle around the counted lines of the only block.
TightBox ==
    LET Least(S) == CHOOSE x \in S : \A y \in S : x <= y
        Most(S) == CHOOSE x \in S : \A y \in S : x >= y
    IN  IRect(Least({r.x0 : r \in CountedLines}), Least({r.y0 : r \in CountedLines}),
              Most({r.x1 : r \in CountedLines}), Most({r.y1 : r \in CountedLines}))

\* The rectangle column_boxes returns for the only block: the usable
\* rectangle when the block gives no candidate, else its tight box, the
\* right edge at the page width unless the box lies in a drawing or an
\* image or the widened box meets one.
OnlyColumn ==
    IF NoCandidate THEN UsableRect
    ELSE LET wide == [TightBox EXCEPT !.x1 = page.rect.x1 - page.rect.x0]
             obstacles == page.drawings \o page.images
         IN  IF \E k \in 1..Len(obstacles) :
                    \/ Contains(obstacles[k], TightBox)
                    \/ ~IsEmpty(Intersect(wide, obstacles[k]))
             THEN TightBox
             ELSE wide

\* C14 as stated: parsing a single-page document with exactly one text
\* block and no tables yields exactly one element, of kind Text, whose text
\* equals the trimmed oracle extraction over the full usable rectangle of
\* the page.
C14_AsStated ==
    OneBlockParsed =>
        /\ Len(elements) = 1
        /\ elements[1].category = "text"
        /\ PageText(elements[1].text.clip) = PageText(UsableRect)

\* C14 amended: parsing a single-page document with exactly one text block
\* and no tables yields exactly one element, of kind Text, on page 1, whose
\* text is the trimmed oracle extraction over the one rectangle
\* column_boxes returns for the block: the tight box around the block's
\* lines of more than one character, its right edge moved to the page
\* width when no drawing or image stands in the way, and the full usable
\* rectangle only when the block gives no candidate rectangle.
C14_OneTextElement ==
    OneBlockParsed =>
        /\ Len(elements) = 1
        /\ elements[1].category = "text"
        /\ elements[1].start_page = 1 /\ elements[1].end_page = 1
        /\ elements[1].text = extract_bbox_text(0, OnlyColumn)

\* The page of one block with a two-character line and a one-character
\* line below it has been parsed: the element's text is read from the box
\* of the first line, widened.
C14_Witness ==
    /\ OneBlockParsed
    /\ Len(OnlyBlock.lines) = 2
    /\ elements[1].text.clip = IRect(0, 30, 6, 32)
    /\ PageText(elements[1].text.clip) # PageText(UsableRect)

\* The greedy merge is about to handle the candidate bboxes[i].
MergingCandidate == cpc = "merge" /\ loop_index <= Len(col_bboxes)

\* The merged rectangles that horizontally overlap bb, share its
\* drawing-path membership and whose union with bb passes the can-extend
\* test against the merged rectangles.
MatchesOf(bb) ==
    {j \in 1..Len(nblocks) :
        /\ nblocks[j].x1 >= bb.x0
        /\ bb.x1 >= nblocks[j].x0
        /\ in_bbox(nblocks[j], path_bboxes) = in_bbox(bb, path_bboxes)
        /\ can_extend(IncludeRect(bb, nblocks[j]), nblocks[j], nblocks, vert_bboxes)}

\* The merged rectangles after bb has been handled once: merged into the
\* first match, or appended when there is none.
SinglePass(bb) ==
    IF MatchesOf(bb) = {} THEN Append(nblocks, bb)
    ELSE LET j == CHOOSE m \in MatchesOf(bb) : \A h \in MatchesOf(bb) : m <= h
         IN  [nblocks EXCEPT ![j] = IncludeRect(bb, nblocks[j])]

\* C18: in the greedy merge of column_boxes, each remaining candidate
\* rectangle is handled exactly once with single-pass semantics: it is
\* either merged by union into the first existing merged rectangle that
\* horizontally overlaps it, shares its drawing-path membership and whose
\* union passes the can-extend test, or it is appended exactly once as a
\* new merged rectangle; the result list never grows by more than one entry
\* per candidate, and a found match is never discarded by a second check.
C18_AsStated ==
    [][MergingCandidate =>
          /\ nblocks' = SinglePass(col_bboxes[loop_index])
          /\ Len(nblocks') <= Len(nblocks) + 1]_vars

\* extend_right is about to handle the candidate bboxes[i].
ExtendingCandidate == cpc = "extend" /\ loop_index <= Len(col_bboxes)

\* The rectangles a and b share a point of positive area.
Overlap(a, b) ==
    /\ Max(a.x0, b.x0) < Min(a.x1, b.x1)
    /\ Max(a.y0, b.y0) < Min(a.y1, b.y1)

\* The obstructions of the page: drawing paths, images, vertical text.
Obstructions == path_bboxes \o img_bboxes \o vert_bboxes

\* C19: rightward extension in column_boxes changes a candidate's right
\* edge only when the candidate lies inside no drawing-path and no image
\* rectangle, and the extended rectangle intersects no drawing-path, image
\* or vertical-text rectangle and no other candidate rectangle (in the
\* list's current state, other than rectangles equal to the candidate
\* itself); every other candidate is left unchanged, so extension never
\* makes two previously disjoint candidates intersect.
C19_ExtensionUnobstructed ==
    [][ExtendingCandidate =>
          LET i == loop_index
              bb == col_bboxes[i]
              ext == col_bboxes'[i]
              others == 1..Len(col_bboxes) \ {i}
          IN  /\ Len(col_bboxes') = Len(col_bboxes)
              /\ \A k \in others : col_bboxes'[k] = col_bboxes[k]
              /\ ext = [bb EXCEPT !.x1 = ext.x1]
              /\ ext.x1 # bb.x1 =>
                    /\ \A k \in 1..Len(path_bboxes) : ~Contains(path_bboxes[k], bb)
                    /\ \A k \in 1..Len(img_bboxes) : ~Contains(img_bboxes[k], bb)
                    /\ \A k \in 1..Len(Obstructions) : ~Overlap(ext, Obstructions[k])
                    /\ \A k \in others :
                          col_bboxes[k] # bb => ~Overlap(ext, col_bboxes[k])
              /\ \A k, m \in 1..Len(col_bboxes) :
                    ~Overlap(col_bboxes[k], col_bboxes[m])
                        => ~Overlap(col_bboxes'[k], col_bboxes'[m])]_vars

\* extend_right has run over two candidates side by side: the right one
\* reaches the page's width, the left one was kept from running into it
C19_Witness ==
    /\ cpc = "extend"
    /\ loop_index > Len(col_bboxes)
    /\ \E k, m \in 1..Len(col_bboxes) :
          /\ col_bboxes[k].x1 = page.rect.x1 - page.rect.x0
          /\ col_bboxes[m].x1 < col_bboxes[k].x0
          /\ Overlap([col_bboxes[m] EXCEPT !.x1 = page.rect.x1], col_bboxes[k])

\* clean_nblocks is about to run on the merged rectangles.
CleaningUp == cpc = "merge" /\ loop_index > Len(col_bboxes)

\* The merged rectangles once the duplicate removal of clean_nblocks has
\* run over them.
Deduped ==
    IF Len(nblocks) < 2 THEN nblocks ELSE DedupeLoop(nblocks, Len(nblocks) - 1)

\* Two bottom edges are within 10 units of each other.
SameBottom(a, b) == Abs(a.y1 - b.y1) <= 10

\* The position at which the run of position k of list d starts: a run
\* goes on for as long as the bottom edges are within 10 units of the
\* bottom edge of its first rectangle.
RECURSIVE RunStart(_, _)
RunStart(d, k) ==
    IF k = 1 THEN 1
    ELSE LET s == RunStart(d, k - 1)
         IN  IF SameBottom(d[k], d[s]) THEN s ELSE k

\* The positions of list d that belong to the run starting at s.
RunOf(d, s) == {k \in 1..Len(d) : RunStart(d, k) = s}

\* C20 as stated: in the output of the post-pass, the rectangles of any
\* consecutive run whose bottom edges are within 10 units of each other
\* appear in non-decreasing order of x0.
C20_AsStated ==
    (cpc = "returned" /\ ~column_error) =>
        \A p, q \in 1..Len(column_result) :
            (/\ p < q
             /\ \A k, m \in p..q : SameBottom(column_result[k], column_result[m]))
                => column_result[p].x0 <= column_result[q].x0

\* C20: the post-pass of column_boxes (clean_nblocks) re-sorts
\* left-to-right, by left coordinate, every consecutive run of rectangles
\* whose bottom edges are within 10 units of the bottom edge of the run's
\* first rectangle (duplicates removed): in its output the rectangles of a
\* run stand at the run's positions in non-decreasing order of x0, and
\* rectangles are never moved across runs.
C20_RunsSortedByLeft ==
    [][CleaningUp =>
          LET d == Deduped
              out == nblocks'
          IN  /\ Len(out) = Len(d)
              /\ \A k, m \in 1..Len(d) :
                    (k < m /\ RunStart(d, k) = RunStart(d, m))
                        => out[k].x0 <= out[m].x0
              /\ \A s \in 1..Len(d) : \A r \in {d[k] : k \in 1..Len(d)} :
                    Cardinality({k \in RunOf(d, s) : out[k] = r})
                        = Cardinality({k \in RunOf(d, s) : d[k] = r})]_vars

\* column_boxes returned two rectangles of one run that the post-pass
\* swapped: the candidates are sorted by their top edge, and the one that
\* starts lower stands first.
C20_Witness ==
    /\ cpc = "returned"
    /\ ~column_error
    /\ column_result = <<IRect(0, 12, 2, 25), IRect(3, 11, 6, 20)>>

\* The list s with every rectangle that equals the one before it left out.
Collapse(s) ==
    LET keep == {k \in 1..Len(s) : k = 1 \/ s[k] # s[k - 1]}
        RECURSIVE Pick(_)
        Pick(k) ==
            IF k > Len(s) THEN <<>>
            ELSE IF k \in keep THEN <<s[k]>> \o Pick(k + 1) ELSE Pick(k + 1)
    IN  Pick(1)

\* The rectangles that occur in the list s.
RectsOf(s) == {s[k] : k \in 1..Len(s)}

\* C21: the duplicate-removal step of the post-pass (clean_nblocks) removes
\* only rectangles that are exact duplicates of the rectangle adjacent to
\* them in the list: afterwards no two adjacent rectangles are equal, every
\* distinct rectangle of the input still occurs in the output, and a
\* non-empty input never becomes empty.
C21_AsStated ==
    CleaningUp =>
        /\ Deduped = Collapse(nblocks)
        /\ \A k \in 1..(Len(Deduped) - 1) : Deduped[k] # Deduped[k + 1]
        /\ RectsOf(Deduped) = RectsOf(nblocks)
        /\ nblocks # <<>> => Deduped # <<>>

\* The Text slices among the regions emitted so far for the column being
\* composed.
ColumnSlices ==
    {ordered_content[k][1] : k \in {i \in (column_start + 1)..Len(ordered_content) :
                                        ordered_content[i][2] = "text"}}

\* Every Text slice emitted so far for the column lies entirely above or
\* entirely below each of the first n tables of the column.
SlicesClear(n) ==
    \A slice \in ColumnSlices : \A k \in 1..n :
        \/ slice.y1 <= intersecting_tables[k].y0
        \/ slice.y0 >= intersecting_tables[k].y1

\* The step splits the column, or what is left of it, by a table.
SplitStep ==
    /\ gpc' = "tables"
    /\ table_index' # table_index \/ gpc = "column"
    /\ ~(gpc = "tables" /\ current_bbox = None)

\* The step ends a column every table of which was used to split it.
LastSliceStep == gpc = "tables" /\ gpc' = "column" /\ current_bbox # None

\* C22: for every column rectangle and any set of merged tables
\* intersecting it (including tables that overlap each other vertically or
\* sit side by side), no Text slice emitted for that column overlaps the
\* vertical extent of any of those tables: each emitted slice lies
\* entirely above or entirely below every table that was used to split the
\* column.
C22_AsStated ==
    [][/\ SplitStep => SlicesClear(table_index - 1)'
       /\ LastSliceStep => SlicesClear(Len(intersecting_tables))']_vars

=============================================================================
